---- MODULE Spec2Model ----
(***************************************************************************)
(* Patient registry of the TOTVS device emulator: the directory client and *)
(* synchronize engine (services/patientSyncService.ts), the durable store  *)
(* adapter (services/patientsService.ts) and the PatientManager component  *)
(* that owns the in-memory patient list.                                   *)
(*                                                                         *)
(* Strings are sequences of one-character strings, so that padding,        *)
(* slicing, trimming and concatenation are computed as the code computes   *)
(* them.  An optional value (a key that may be missing from a loosely      *)
(* typed response) is <<>> when missing and <<v>> when present.            *)
(***************************************************************************)
EXTENDS Integers, Sequences, FiniteSets, TLC

VARIABLES
    persisted,    \* the durable copy kept by the backend (wire records)
    patients,     \* PatientManager: useState patients
    loading,      \* PatientManager: useState loading
    error,        \* PatientManager: useState error (set or not)
    syncLoading,  \* PatientManager: useState syncLoading
    modal,        \* which dialog is open: isAddEditOpen / isImportOpen
    editing,      \* PatientManager: useState editingPatient
    ops,          \* store handlers suspended in "await savePatients(...)"
    nops,         \* number of store handlers started so far
    hpc,          \* position of the running synchronize handler
    hsnap,        \* the patients list that handler closed over
    hpatient,     \* handleSyncPatient: its argument
    hresults,     \* handleSyncAllPatients: results not yet processed
    hsaving,      \* list the synchronize handler is persisting
    hcount,       \* handleSyncAllPatients: <<updatedCount, errorCount>>
    halert,       \* the last message the synchronize handler alerted
    nsyncs,       \* number of synchronize handlers started so far
    spc,          \* position of the running service call
    scaller,      \* which service method was called
    sarg,         \* syncAllPatients: its patients argument
    squeue,       \* syncAllPatients: importedPatients not yet visited
    scur,         \* patient of the running syncPatient
    sidx,         \* number of syncPatient calls started by this service call
    sgot,         \* settled members of the running Promise.all
    sresults,     \* results collected / returned by the service call
    reqs,         \* directory requests in flight
    sent,         \* the directory requests the service call issued, in order
    assigned,     \* history: every id a record of the in-memory list has had
    dlg,          \* ImportPatientDialog: its state and its running handler
    upl,          \* BiometricUploader: its state and the value its parent holds
    mgr           \* the mounted device-emulation manager and its backend calls

vars == <<persisted, patients, loading, error, syncLoading, modal, editing, ops, nops,
          hpc, hsnap, hpatient, hresults, hsaving, hcount, halert, nsyncs,
          spc, scaller, sarg, squeue, scur, sidx, sgot, sresults, reqs, sent, assigned,
          dlg, upl, mgr>>

storeVars == <<persisted, patients>>
uiVars == <<loading, error, modal, editing, ops, nops>>
countVars == <<nsyncs>>
histVars == <<assigned>>
dlgVars == <<dlg>>
panelVars == <<upl, mgr>>
\* what a synchronize handler and the service call it awaits can change
runVars == <<syncLoading, hpc, hsnap, hpatient, hresults, hsaving, hcount, halert,
             spc, scaller, sarg, squeue, scur, sidx, sgot, sresults, reqs, sent>>

----------------------------------------------------------------------------
(* Optional values and JavaScript truthiness of strings *)

None == <<>>
Some(v) == <<v>>

\* a || b on optional strings: a missing key and "" are both falsy
Truthy(o) == o # None /\ o[1] # <<>>

RECURSIVE FirstTruthy(_, _)
FirstTruthy(os, default) ==
    IF os = <<>> THEN default
    ELSE IF Truthy(Head(os)) THEN Head(os)[1]
    ELSE FirstTruthy(Tail(os), default)

\* a ?? b on optional strings: only a missing key falls through
RECURSIVE FirstPresent(_, _)
FirstPresent(os, default) ==
    IF os = <<>> THEN default
    ELSE IF Head(os) # None THEN Head(os)[1]
    ELSE FirstPresent(Tail(os), default)

Map(f(_), s) == [i \in 1..Len(s) |-> f(s[i])]

----------------------------------------------------------------------------
(* String transforms *)

Repeat(c, n) == [i \in 1..n |-> c]

\* String.prototype.padStart(n, c) for a one-character c
PadStart(s, n, c) == IF Len(s) >= n THEN s ELSE Repeat(c, n - Len(s)) \o s

\* String.prototype.slice(-n)
SliceLast(s, n) == IF Len(s) <= n THEN s ELSE SubSeq(s, Len(s) - n + 1, Len(s))

\* replace(/^0+/, "")
RECURSIVE StripLeadingZeros(_)
StripLeadingZeros(s) ==
    IF s # <<>> /\ Head(s) = "0" THEN StripLeadingZeros(Tail(s)) ELSE s

IsSpace(c) == c \in {" ", "\n"}

RECURSIVE TrimStart(_)
TrimStart(s) == IF s # <<>> /\ IsSpace(Head(s)) THEN TrimStart(Tail(s)) ELSE s

RECURSIVE TrimEnd(_)
TrimEnd(s) ==
    IF s # <<>> /\ IsSpace(s[Len(s)]) THEN TrimEnd(SubSeq(s, 1, Len(s) - 1)) ELSE s

\* String.prototype.trim()
Trim(s) == TrimEnd(TrimStart(s))

\* replace(/\s+/g, "")
StripSpaces(s) == SelectSeq(s, LAMBDA c : ~IsSpace(c))

\* split(",") then the last part
RECURSIVE AfterLastComma(_)
AfterLastComma(s) ==
    IF \E i \in 1..Len(s) : s[i] = ","
    THEN AfterLastComma(Tail(s))
    ELSE s

PadInsurer == 4
PadCard == 13
QueryDigits == 13

----------------------------------------------------------------------------
(* Patient records and the wire form they are persisted in *)

Patient(id, name, wallet, facial, digital, imported) ==
    [id |-> id, name |-> name, wallet |-> wallet, facialBiometric |-> facial,
     digitalBiometrics |-> digital, imported |-> imported]

toPatientSnake(p) ==
    [id |-> p.id, name |-> Some(p.name), full_name |-> None, fullName |-> None,
     nome |-> None, wallet |-> p.wallet,
     facial_biometric |-> Some(p.facialBiometric),
     digital_biometrics |->
         Some(Map(LAMBDA d : [finger |-> d.finger, data |-> d.data],
                  p.digitalBiometrics)),
     imported |-> Some(p.imported)]

\* mutant: the name chain written with || instead of ??
toPatientCamelTruthy(raw) ==
    [id |-> raw.id,
     name |-> FirstTruthy(<<raw.name, raw.full_name, raw.fullName, raw.nome>>, <<>>),
     wallet |-> raw.wallet,
     facialBiometric |-> FirstPresent(<<raw.facial_biometric>>, <<>>),
     digitalBiometrics |->
         Map(LAMBDA d : [finger |-> d.finger, data |-> d.data],
             FirstPresent(<<raw.digital_biometrics>>, <<>>)),
     imported |-> (raw.imported # None /\ raw.imported[1])]

toPatientCamel(raw) ==
    [id |-> raw.id,
     name |-> FirstPresent(<<raw.name, raw.full_name, raw.fullName, raw.nome>>, <<>>),
     wallet |-> raw.wallet,
     facialBiometric |-> FirstPresent(<<raw.facial_biometric>>, <<>>),
     digitalBiometrics |->
         Map(LAMBDA d : [finger |-> d.finger, data |-> d.data],
             FirstPresent(<<raw.digital_biometrics>>, <<>>)),
     imported |-> (raw.imported # None /\ raw.imported[1])]

\* loadPatients: what the client gets for the records load_patients sends
loadPatients(raw) == Map(toPatientCamel, raw)

----------------------------------------------------------------------------
(* Finger Code Mapper *)

\* mutant: the table forgotten
getFingerNameDefaultOnly(fingerCode) == <<"Dedo", fingerCode>>

getFingerName(fingerCode) ==
    CASE fingerCode = 1 -> <<"Mínimo Esquerdo">>
      [] fingerCode = 2 -> <<"Anelar Esquerdo">>
      [] fingerCode = 3 -> <<"Médio Esquerdo">>
      [] fingerCode = 4 -> <<"Indicador Esquerdo">>
      [] fingerCode = 5 -> <<"Polegar Esquerdo">>
      [] fingerCode = 6 -> <<"Polegar Direito">>
      [] fingerCode = 7 -> <<"Indicador Direito">>
      [] fingerCode = 8 -> <<"Médio Direito">>
      [] fingerCode = 9 -> <<"Anelar Direito">>
      [] fingerCode = 10 -> <<"Mínimo Direito">>
      [] OTHER -> <<"Dedo", fingerCode>>

\* A fingerCode the directory sends as a string: the string of n is the
\* number StringCode(n), which no case of the switch equals, so that
\* getFingerName(StringCode(n)) is the text "Dedo " followed by that string.
StringCode(n) == 100 + n

\* typeof fingerCode === 'number'
IsNumber(fingerCode) == fingerCode < StringCode(0)

\* ImportPatientDialog.getFingerNameByCode
getFingerNameByCode(fingerCode) ==
    CASE fingerCode = 1 -> <<"Mínimo Esquerdo">>
      [] fingerCode = 2 -> <<"Anelar Esquerdo">>
      [] fingerCode = 3 -> <<"Médio Esquerdo">>
      [] fingerCode = 4 -> <<"Indicador Esquerdo">>
      [] fingerCode = 5 -> <<"Polegar Esquerdo">>
      [] fingerCode = 6 -> <<"Polegar Direito">>
      [] fingerCode = 7 -> <<"Indicador Direito">>
      [] fingerCode = 8 -> <<"Médio Direito">>
      [] fingerCode = 9 -> <<"Anelar Direito">>
      [] fingerCode = 10 -> <<"Mínimo Direito">>
      [] OTHER -> <<"Dedo", fingerCode>>

----------------------------------------------------------------------------
(* Beneficiary Directory Client: what each method makes of the outcome of  *)
(* its request.  An outcome is [ok, body]; ok = FALSE is a rejected invoke. *)

\* mutant: the card number sent as it was passed in
detailQueryIdWhole(cardNumber) == cardNumber

\* the argument getBeneficiaryDetails sends to the directory
detailQueryId(cardNumber) == StripLeadingZeros(SliceLast(cardNumber, QueryDigits))

\* a settled promise
Fulfilled(v) == [fulfilled |-> TRUE, value |-> v]
Rejected == [fulfilled |-> FALSE, value |-> <<>>]

\* getBeneficiaryDetails lines 92-105: the Beneficiary made of a response
beneficiaryOf(cardNumber, details) ==
    LET name == FirstTruthy(<<details.cardName, details.name, details.personName>>, <<>>)
        healthInsurer ==
            PadStart(FirstTruthy(<<details.healthInsurer>>, <<>>), PadInsurer, "0")
        cardNumberStr == FirstTruthy(<<details.cardNumber>>, cardNumber)
        completeCardNumber ==
            FirstTruthy(<<details.completeCardNumber>>, healthInsurer \o cardNumberStr)
    IN  [name |-> name, healthInsurer |-> healthInsurer,
         cardNumber |-> cardNumberStr, completeCardNumber |-> completeCardNumber]

\* mutant: getBeneficiaryDetails swallowing a rejected request
getBeneficiaryDetailsSwallows(cardNumber, outcome) ==
    Fulfilled(beneficiaryOf(cardNumber, outcome.body))

\* getBeneficiaryDetails: how its promise settles; no try/catch around invoke
getBeneficiaryDetails(cardNumber, outcome) ==
    IF ~outcome.ok THEN Rejected
    ELSE Fulfilled(beneficiaryOf(cardNumber, outcome.body))

\* fp.fingerCode || fp.code || 0 : a missing key and 0 are both falsy
FirstNonZero(a, b) == IF a # 0 THEN a ELSE b

\* getFingerprints: how its promise settles; the catch returns []
getFingerprints(outcome) ==
    IF ~outcome.ok THEN Fulfilled(<<>>)
    ELSE LET fingerprintsArray == IF outcome.isArray THEN outcome.body ELSE <<>>
         IN  Fulfilled(Map(LAMBDA fp :
                               [fingerCode |-> FirstNonZero(fp.fingerCode, fp.code),
                                biometry |-> FirstTruthy(<<fp.biometry, fp.data>>, <<>>)],
                           fingerprintsArray))

\* getFacialBiometry lines 149-167: the payload made of a response
sanitize(raw) ==
    LET base64 == IF raw.t = "string" THEN raw.v
                  ELSE IF raw.t = "photo" /\ raw.v # <<>> THEN raw.v
                  ELSE <<>>
        noPrefix == IF \E i \in 1..Len(base64) : base64[i] = ","
                    THEN AfterLastComma(base64) ELSE base64
    IN  Trim(StripSpaces(noPrefix))

\* mutant: getFacialBiometry without its try/catch
getFacialBiometryRethrows(outcome) ==
    IF ~outcome.ok THEN Rejected ELSE Fulfilled(sanitize(outcome))

\* getFacialBiometry: how its promise settles; the catch returns ""
getFacialBiometry(outcome) ==
    IF ~outcome.ok THEN Fulfilled(<<>>) ELSE Fulfilled(sanitize(outcome))

----------------------------------------------------------------------------
(* Reconciliation Engine: syncPatient once its three promises are settled *)

SyncResult(success, message, updated, of) ==
    [success |-> success, message |-> message, updatedPatient |-> updated, of |-> of]

\* "of" is not a field of the code's SyncResult: it records the patient the
\* result was computed for, which a failed result does not say
NotImportedResult(patient) == SyncResult(FALSE, "not imported", None, Some(patient))
ErrorResult(patient) == SyncResult(FALSE, "error", None, Some(patient))
NoneImportedResult == SyncResult(FALSE, "none imported", None, None)

\* mutant: the directory's name wins over the local one
mergePatientApiNameFirst(patient, details, fingerprints, facialBiometry) ==
    LET apiResolvedName == Trim(FirstTruthy(<<Some(details.name), None, None>>, <<>>))
    IN  [patient EXCEPT
            !.name = IF apiResolvedName # <<>> THEN apiResolvedName ELSE patient.name,
            !.wallet = IF details.completeCardNumber # <<>>
                       THEN details.completeCardNumber ELSE patient.wallet,
            !.digitalBiometrics =
                Map(LAMBDA fp : [finger |-> getFingerName(fp.fingerCode),
                                 data |-> fp.biometry], fingerprints),
            !.facialBiometric = facialBiometry]

\* mutant: an empty fetch keeps the local biometrics
mergePatientKeepsLocal(patient, details, fingerprints, facialBiometry) ==
    LET digitalBiometrics ==
            Map(LAMBDA fp : [finger |-> getFingerName(fp.fingerCode), data |-> fp.biometry],
                fingerprints)
        apiResolvedName == Trim(FirstTruthy(<<Some(details.name), None, None>>, <<>>))
    IN  [patient EXCEPT
            !.name = IF patient.name # <<>> THEN patient.name ELSE apiResolvedName,
            !.wallet = IF details.completeCardNumber # <<>>
                       THEN details.completeCardNumber ELSE patient.wallet,
            !.digitalBiometrics = IF digitalBiometrics # <<>> THEN digitalBiometrics
                                  ELSE patient.digitalBiometrics,
            !.facialBiometric = IF facialBiometry # <<>> THEN facialBiometry
                                ELSE patient.facialBiometric]

\* mutant: updatedPatient built without the spread of the input patient
mergePatientWithoutSpread(patient, details, fingerprints, facialBiometry) ==
    [id |-> 0, name |-> patient.name, wallet |-> patient.wallet,
     facialBiometric |-> facialBiometry,
     digitalBiometrics |->
         Map(LAMBDA fp : [finger |-> getFingerName(fp.fingerCode), data |-> fp.biometry],
             fingerprints),
     imported |-> FALSE]

\* lines 201-223: details is the Beneficiary, fingerprints the mapped list
mergePatient(patient, details, fingerprints, facialBiometry) ==
    LET digitalBiometrics ==
            Map(LAMBDA fp : [finger |-> getFingerName(fp.fingerCode), data |-> fp.biometry],
                fingerprints)
        \* the Beneficiary has no fullName and no nome key
        apiResolvedName == Trim(FirstTruthy(<<Some(details.name), None, None>>, <<>>))
    IN  [patient EXCEPT
            !.name = IF patient.name # <<>> THEN patient.name ELSE apiResolvedName,
            !.wallet = IF details.completeCardNumber # <<>>
                       THEN details.completeCardNumber ELSE patient.wallet,
            !.digitalBiometrics = digitalBiometrics,
            !.facialBiometric = facialBiometry]

----------------------------------------------------------------------------
(* Beneficiary search: patientSyncService.searchBeneficiaries *)

\* String.prototype.toLowerCase on the letters the model uses
toLowerCase(s) ==
    Map(LAMBDA c : CASE c = "A" -> "a" [] c = "B" -> "b" [] c = "E" -> "e"
                     [] OTHER -> c, s)

\* String.prototype.includes
includes(s, t) ==
    \E i \in 0..(Len(s) - Len(t)) : SubSeq(s, i + 1, i + Len(t)) = t

\* mutant: the two parts joined without padding
normalizeBeneficiaryUnpadded(b) ==
    LET healthInsurerStr == FirstPresent(<<b.healthInsurer>>, <<>>)
        cardNumStr == FirstPresent(<<b.cardNumber>>, <<>>)
    IN  [name |-> FirstTruthy(<<b.name, b.cardName, b.fullName, b.nome>>, <<>>),
         healthInsurer |-> healthInsurerStr,
         cardNumber |-> cardNumStr,
         completeCardNumber |->
             FirstPresent(<<b.completeCardNumber>>, healthInsurerStr \o cardNumStr)]

\* lines 55-65: one raw result normalized
normalizeBeneficiary(b) ==
    LET healthInsurerStr == FirstPresent(<<b.healthInsurer>>, <<>>)
        cardNumStr == FirstPresent(<<b.cardNumber>>, <<>>)
        completeCard ==
            FirstPresent(<<b.completeCardNumber>>,
                         PadStart(healthInsurerStr, PadInsurer, "0")
                             \o PadStart(cardNumStr, PadCard, "0"))
    IN  [name |-> FirstTruthy(<<b.name, b.cardName, b.fullName, b.nome>>, <<>>),
         healthInsurer |-> healthInsurerStr,
         cardNumber |-> cardNumStr,
         completeCardNumber |-> completeCard]

\* lines 70-75: the predicate of the local filter
matchesGuarantor(b, searchTerm) ==
    \/ includes(toLowerCase(b.name), searchTerm)
    \/ includes(b.healthInsurer, searchTerm)
    \/ includes(b.cardNumber, searchTerm)
    \/ includes(b.completeCardNumber, searchTerm)

\* searchBeneficiaries lines 49-78: how its promise settles; no try/catch
searchBeneficiaries(guarantor, outcome) ==
    IF ~outcome.ok THEN Rejected
    ELSE LET list == IF outcome.isArray THEN outcome.body ELSE <<>>
             normalized == Map(normalizeBeneficiary, list)
         IN  IF guarantor # <<>>
             THEN Fulfilled(SelectSeq(normalized,
                                      LAMBDA b : matchesGuarantor(b, toLowerCase(guarantor))))
             ELSE Fulfilled(normalized)

----------------------------------------------------------------------------
(* Bounds and the values the model draws its inputs from *)

MaxOps == 2       \* store handlers (save, import, delete) started in one run
MaxSyncs == 1     \* synchronize handlers started in one run
MaxOpsSync == 1   \* store handlers started in a run that also synchronizes
MaxCalls == 2     \* handlers of the import dialog, or direct searches, in one run
MaxChanges == 2   \* callbacks of one payload editor in one run
MaxToggles == 2   \* clicks on the toggle button of one manager in one run

NameAna == <<"A", "n", "a">>
NameEd == <<"E", "d">>
NameBiaRaw == <<" ", "B", "i", "a">>            \* as the directory sends it
Wallet42 == Repeat("0", 3) \o <<"1">> \o Repeat("0", 11) \o <<"4", "2">>
Wallet7 == Repeat("0", 3) \o <<"2">> \o Repeat("0", 12) \o <<"7">>
WalletNew == Repeat("0", 3) \o <<"1">> \o Repeat("0", 11) \o <<"4", "3">>
Short42 == <<"4", "2">>
OldFace == <<"o", "l", "d">>
OldPrint == <<[finger |-> <<"Polegar Direito">>, data |-> <<"p">>]>>

\* bodies of get_beneficiary_details
DetailBody(cardName, name, personName, healthInsurer, cardNumber, complete) ==
    [cardName |-> cardName, name |-> name, personName |-> personName,
     healthInsurer |-> healthInsurer, cardNumber |-> cardNumber,
     completeCardNumber |-> complete]
EmptyBody == DetailBody(None, None, None, None, None, None)

DetailOutcomes ==
    { [ok |-> FALSE, body |-> EmptyBody],
      [ok |-> TRUE,
       body |-> DetailBody(None, Some(NameBiaRaw), None, Some(<<"1">>), None, Some(WalletNew))],
      [ok |-> TRUE,
       body |-> DetailBody(None, None, None, Some(<<"1">>), None, None)] }

RawPrint(fingerCode, code, biometry, data) ==
    [fingerCode |-> fingerCode, code |-> code, biometry |-> biometry, data |-> data]

FingerprintOutcomes ==
    { [ok |-> FALSE, isArray |-> FALSE, body |-> <<>>],
      [ok |-> TRUE, isArray |-> TRUE,
       body |-> <<RawPrint(1, 0, Some(<<"x">>), None), RawPrint(0, 7, None, Some(<<>>)),
                  RawPrint(1, 0, Some(<<"y">>), None),
                  RawPrint(StringCode(7), 0, Some(<<"z">>), None),
                  RawPrint(0, 0, Some(<<"m">>), None),
                  RawPrint(-1, 0, Some(<<"n">>), None),
                  RawPrint(11, 0, Some(<<"o">>), None)>>] }

FacialOutcomes ==
    { [ok |-> FALSE, t |-> "other", v |-> <<>>],
      [ok |-> TRUE, t |-> "string", v |-> <<"d", ",", "i", " ", "V">>],
      [ok |-> TRUE, t |-> "photo", v |-> <<"i", "V">>] }

\* results of search_beneficiaries as the directory sends them
RawBeneficiary(name, fullName, nome, healthInsurer, cardNumber, complete) ==
    [name |-> name, cardName |-> None, fullName |-> fullName, nome |-> nome,
     healthInsurer |-> healthInsurer, cardNumber |-> cardNumber,
     completeCardNumber |-> complete]

SearchOutcomes ==
    { [ok |-> FALSE, isArray |-> FALSE, body |-> <<>>],
      [ok |-> TRUE, isArray |-> FALSE, body |-> <<>>],
      [ok |-> TRUE, isArray |-> TRUE,
       body |-> <<RawBeneficiary(Some(NameAna), None, None,
                                 Some(<<"1">>), Some(Short42), None),
                  RawBeneficiary(None, Some(NameEd), None,
                                 Some(<<"A", "B">>), Some(<<"7">>), None),
                  RawBeneficiary(None, None, Some(NameBiaRaw),
                                 None, None, Some(WalletNew))>>] }

Outcomes(kind) ==
    CASE kind = "detail" -> DetailOutcomes
      [] kind = "fingerprints" -> FingerprintOutcomes
      [] kind = "facial" -> FacialOutcomes
      [] kind = "search" -> SearchOutcomes

\* what the user may have typed in the "Contratante" field
Guarantors == { <<>>, <<" ">>, <<"a", "n", " ">>, <<"A", "B">>, <<"4">>, <<"z">> }
\* what the user may have typed in the "Nº da Carteira" field
CardNumbers == { <<" ">>, Short42 \o <<" ">>, Wallet42 }

PAna == Patient(1, NameAna, Wallet42, OldFace, OldPrint, TRUE)
PLocal == Patient(2, NameEd, Short42, <<>>, <<>>, FALSE)
PNoName == Patient(3, <<>>, Wallet7, <<>>, <<>>, TRUE)
PThird == Patient(5, NameEd, Wallet42, <<>>, OldPrint, TRUE)

\* what load_patients may find on disk
InitialStores ==
    { <<>>,
      Map(toPatientSnake, <<PAna>>),
      Map(toPatientSnake, <<PLocal>>),
      Map(toPatientSnake, <<PAna, PNoName>>) }

\* what AddEditPatient.handleSave hands over for a new patient
ManualDraft == Patient(0, NameEd, Short42, <<>>, <<>>, FALSE)
\* what the import dialog hands over
ImportDraft == Patient(0, NameAna, Wallet7, <<>>, <<>>, TRUE)

\* arguments of direct calls of the service
ApiPatients == {PAna, PLocal, PNoName}
ApiLists == { <<>>, <<PLocal>>, <<PAna, PLocal, PNoName>>, <<PAna, PNoName, PThird>> }

\* a record as load_patients may send it: any key but id and wallet may be
\* missing, the name may come under another key, a biometric may carry keys
\* the client does not know
RawPatient(name, full_name, fullName, nome, facial, digital, imported) ==
    [id |-> 1, name |-> name, full_name |-> full_name, fullName |-> fullName,
     nome |-> nome, wallet |-> Wallet42, facial_biometric |-> facial,
     digital_biometrics |-> digital, imported |-> imported]

RawPrints == <<[finger |-> <<"Polegar Direito">>, data |-> <<"x">>, quality |-> 9]>>

RawPatients ==
    { RawPatient(name, full_name, fullName, nome, facial, digital, imported) :
        name \in {None, Some(<<>>), Some(NameAna)},
        full_name \in {None, Some(<<"f">>)},
        fullName \in {None, Some(<<"F">>)},
        nome \in {None, Some(<<"n">>)},
        facial \in {None, Some(OldFace)},
        digital \in {None, Some(RawPrints)},
        imported \in {None, Some(FALSE), Some(TRUE)} }

RawStores ==
    { <<>>, Map(toPatientSnake, <<PAna, PNoName>>) } \cup { <<raw>> : raw \in RawPatients }

----------------------------------------------------------------------------
(* The synchronize handlers of PatientManager and the service call they    *)
(* await, as one run.  Everything between two awaits of a real event (a    *)
(* directory request, a timer, a persist) is one step; a run is the record *)
(* of runVars and each operator below maps a run to the run reached when   *)
(* the code suspends next.                                                 *)

Run ==
    [syncLoading |-> syncLoading, hpc |-> hpc, hsnap |-> hsnap, hpatient |-> hpatient,
     hresults |-> hresults, hsaving |-> hsaving, hcount |-> hcount, halert |-> halert,
     spc |-> spc, scaller |-> scaller, sarg |-> sarg, squeue |-> squeue,
     scur |-> scur,
     sidx |-> sidx, sgot |-> sgot, sresults |-> sresults, reqs |-> reqs, sent |-> sent]

Becomes(R) ==
    /\ syncLoading' = R.syncLoading /\ hpc' = R.hpc /\ hsnap' = R.hsnap
    /\ hpatient' = R.hpatient /\ hresults' = R.hresults /\ hsaving' = R.hsaving
    /\ hcount' = R.hcount /\ halert' = R.halert
    /\ spc' = R.spc /\ scaller' = R.scaller /\ sarg' = R.sarg
    /\ squeue' = R.squeue /\ scur' = R.scur
    /\ sidx' = R.sidx /\ sgot' = R.sgot /\ sresults' = R.sresults
    /\ reqs' = R.reqs /\ sent' = R.sent

Min(S) == CHOOSE x \in S : \A y \in S : x <= y

NoneSettled == [detail |-> None, fingerprints |-> None, facial |-> None]

\* patients.map(p => p.id === id ? q : p)
replaceById(list, id, q) == Map(LAMBDA p : IF p.id = id THEN q ELSE p, list)

Alert(kind, updated, errors) == [kind |-> kind, updated |-> updated, errors |-> errors]
NoAlert == Alert("none", 0, 0)

\* mutant: the handlers without their finally block
finishHandlerWithoutFinally(R, alert) ==
    [R EXCEPT !.hpc = "idle", !.halert = alert,
              !.hsnap = <<>>, !.hpatient = None, !.hresults = <<>>,
              !.hsaving = <<>>, !.hcount = <<0, 0>>,
              !.scaller = "none", !.sarg = <<>>, !.squeue = <<>>, !.sgot = NoneSettled,
              !.sresults = <<>>, !.sent = <<>>]

\* alert(...) and the finally block of either synchronize handler
finishHandler(R, alert) ==
    [R EXCEPT !.hpc = "idle", !.syncLoading = FALSE, !.halert = alert,
              !.hsnap = <<>>, !.hpatient = None, !.hresults = <<>>,
              !.hsaving = <<>>, !.hcount = <<0, 0>>,
              \* the locals of the service call it awaited are gone
              !.scaller = "none", !.sarg = <<>>, !.squeue = <<>>, !.sgot = NoneSettled,
              !.sresults = <<>>, !.sent = <<>>]

\* mutant: the loop maps the current in-memory list, not the closed-over one
processResultsFresh(R) ==
    LET rs == R.hresults
        ok == {i \in 1..Len(rs) : rs[i].success /\ rs[i].updatedPatient # None}
    IN  IF ok = {}
        THEN finishHandler(R, Alert("batch complete", R.hcount[1], R.hcount[2] + Len(rs)))
        ELSE LET i == Min(ok)
                 up == rs[i].updatedPatient[1]
             IN  [R EXCEPT !.hsaving = replaceById(patients, up.id, up),
                           !.hpc = "saveAll",
                           !.hresults = SubSeq(rs, i + 1, Len(rs)),
                           !.hcount = <<@[1], @[2] + (i - 1)>>]

\* handleSyncAllPatients lines 466-481: the loop over the results that are
\* left, up to its next await savePatients or to the closing alert
processResults(R) ==
    LET rs == R.hresults
        ok == {i \in 1..Len(rs) : rs[i].success /\ rs[i].updatedPatient # None}
    IN  IF ok = {}
        THEN finishHandler(R, Alert("batch complete", R.hcount[1], R.hcount[2] + Len(rs)))
        ELSE LET i == Min(ok)
                 up == rs[i].updatedPatient[1]
             IN  [R EXCEPT !.hsaving = replaceById(R.hsnap, up.id, up),
                           !.hpc = "saveAll",
                           !.hresults = SubSeq(rs, i + 1, Len(rs)),
                           !.hcount = <<@[1], @[2] + (i - 1)>>]

\* the caller of the service resumes with R.sresults
afterService(R) ==
    CASE R.hpc = "api" -> [R EXCEPT !.spc = "returned"]
      [] R.hpc = "syncOne" ->
            \* handleSyncPatient lines 427-439
            LET result == R.sresults[1]
            IN  IF result.success /\ result.updatedPatient # None
                THEN [R EXCEPT !.spc = "idle",
                               !.hsaving = replaceById(R.hsnap, R.hpatient[1].id,
                                                       result.updatedPatient[1]),
                               !.hpc = "saveOne"]
                ELSE finishHandler([R EXCEPT !.spc = "idle"], Alert(result.message, 0, 0))
      [] R.hpc = "syncAll" ->
            processResults([R EXCEPT !.spc = "idle", !.hresults = R.sresults])

\* mutant: a failed patient ends the batch
afterSyncPatientAborting(R, result) ==
    IF R.scaller = "syncAllPatients"
    THEN [R EXCEPT !.sresults = Append(@, result), !.spc = "pacing", !.scur = None,
                   !.squeue = IF result.success THEN @ ELSE <<>>]
    ELSE afterService([R EXCEPT !.sresults = <<result>>, !.scur = None])

\* the caller of syncPatient resumes with its result
afterSyncPatient(R, result) ==
    IF R.scaller = "syncAllPatients"
    THEN \* lines 247-250: push, then wait for the 200 ms timer
         [R EXCEPT !.sresults = Append(@, result), !.spc = "pacing", !.scur = None]
    ELSE afterService([R EXCEPT !.sresults = <<result>>, !.scur = None])

Request(kind, cardNumber, owner) == [kind |-> kind, cardNumber |-> cardNumber, owner |-> owner]

\* syncPatient lines 187-194: the three requests, up to await Promise.all
issueRequests(R, patient) ==
    LET k == R.sidx + 1
        issued == <<Request("detail", detailQueryId(patient.wallet), k),
                    Request("fingerprints", patient.wallet, k),
                    Request("facial", patient.wallet, k)>>
    IN  [R EXCEPT !.spc = "fetching", !.scur = Some(patient), !.sidx = k,
                  !.sgot = NoneSettled,
                  !.reqs = @ \cup {issued[i] : i \in 1..3},
                  !.sent = @ \o issued]

\* mutant: syncPatient without its imported check
syncPatientUnguarded(R, patient) == issueRequests(R, patient)

\* syncPatient lines 174-194, up to await Promise.all
syncPatient(R, patient) ==
    IF ~patient.imported
    THEN afterSyncPatient(R, NotImportedResult(patient))
    ELSE issueRequests(R, patient)

\* mutant: syncAllPatients without its check for an empty selection
syncAllPatientsUnchecked(R, list) ==
    LET importedPatients == SelectSeq(list, LAMBDA p : p.imported)
        R1 == [R EXCEPT !.scaller = "syncAllPatients", !.sarg = list, !.sresults = <<>>]
    IN  IF importedPatients = <<>>
        THEN afterService(R1)
        ELSE syncPatient([R1 EXCEPT !.squeue = Tail(importedPatients)],
                         Head(importedPatients))

\* syncAllPatients lines 232-246, up to its first await
syncAllPatients(R, list) ==
    LET importedPatients == SelectSeq(list, LAMBDA p : p.imported)
        R1 == [R EXCEPT !.scaller = "syncAllPatients", !.sarg = list, !.sresults = <<>>]
    IN  IF importedPatients = <<>>
        THEN afterService([R1 EXCEPT !.sresults = <<NoneImportedResult>>])
        ELSE syncPatient([R1 EXCEPT !.squeue = Tail(importedPatients)],
                         Head(importedPatients))

\* mutant: the loop left after its first pause
nextPatientReturnsEarly(R) == afterService(R)

\* syncAllPatients after the timer fired: next iteration, or return results
nextPatient(R) ==
    IF R.squeue = <<>>
    THEN afterService(R)
    ELSE syncPatient([R EXCEPT !.squeue = Tail(@)], Head(R.squeue))

\* how the client method behind a request settles when the request does
settle(patient, kind, outcome) ==
    CASE kind = "detail" -> getBeneficiaryDetails(patient.wallet, outcome)
      [] kind = "fingerprints" -> getFingerprints(outcome)
      [] kind = "facial" -> getFacialBiometry(outcome)

\* mutant: syncPatient without its try/catch, so that a rejected member
\* rejects syncPatient: the catch of the loop of syncAllPatients pushes its own
\* result and skips the pause
promiseAllUncaught(R, patient, got) ==
    LET members == <<got.detail, got.fingerprints, got.facial>>
        thrown == SyncResult(FALSE, "rejected", None, Some(patient))
    IN  IF \E i \in 1..3 : members[i] # None /\ ~members[i][1].promise.fulfilled
        THEN IF R.scaller = "syncAllPatients"
             THEN nextPatient([R EXCEPT !.sgot = got, !.scur = None,
                                        !.sresults = Append(@, thrown)])
             ELSE afterService([R EXCEPT !.sgot = got, !.scur = None,
                                         !.sresults = <<thrown>>])
        ELSE IF \E i \in 1..3 : members[i] = None
        THEN [R EXCEPT !.sgot = got]
        ELSE afterSyncPatient(
                 [R EXCEPT !.sgot = got],
                 SyncResult(TRUE, "ok",
                            Some(mergePatient(patient, got.detail[1].promise.value,
                                              got.fingerprints[1].promise.value,
                                              got.facial[1].promise.value)),
                            Some(patient)))

\* Promise.all over the three members, then syncPatient lines 196-229
promiseAll(R, patient, got) ==
    LET members == <<got.detail, got.fingerprints, got.facial>>
    IN  IF \E i \in 1..3 : members[i] # None /\ ~members[i][1].promise.fulfilled
        THEN afterSyncPatient([R EXCEPT !.sgot = got], ErrorResult(patient))
        ELSE IF \E i \in 1..3 : members[i] = None
        THEN [R EXCEPT !.sgot = got]
        ELSE afterSyncPatient(
                 [R EXCEPT !.sgot = got],
                 SyncResult(TRUE, "ok",
                            Some(mergePatient(patient, got.detail[1].promise.value,
                                              got.fingerprints[1].promise.value,
                                              got.facial[1].promise.value)),
                            Some(patient)))

\* a directory request settles
requestSettles(R, r, outcome) ==
    LET R1 == [R EXCEPT !.reqs = @ \ {r}]
    IN  IF R.spc # "fetching" \/ r.owner # R.sidx
        THEN R1      \* the Promise.all that waited for it has already rejected
        ELSE LET patient == R.scur[1]
                 member == [outcome |-> outcome,
                            promise |-> settle(patient, r.kind, outcome)]
             IN  promiseAll(R1, patient, [R.sgot EXCEPT ![r.kind] = Some(member)])

----------------------------------------------------------------------------
(* ImportPatientDialog: its state, and its handlers as maps from the       *)
(* dialog's record to the record reached when the code suspends next.      *)
(* The fields caller .. calls are the running handler (or the direct call  *)
(* of the service's search) and the record of what the last one did.       *)

NoMessage == [text |-> "none", type |-> "none"]
NoBiometrics == [fingerprints |-> None, facial |-> None]

\* the dialog as mounted, no handler running
DialogIdle ==
    [loading |-> FALSE, message |-> NoMessage, timers |-> 0,
     searchResults |-> <<>>, showResults |-> FALSE,
     caller |-> "none", pc |-> "idle", arg |-> <<>>, onImport |-> <<>>,
     resolvedName |-> <<>>, resolvedWallet |-> <<>>,
     details |-> None, got |-> NoBiometrics,
     reqs |-> {}, sent |-> <<>>, draft |-> None, returned |-> None, calls |-> 0]

\* the dialog is removed from the tree: its useState values are gone, and a
\* handler still running sets state of a component that is no longer there
Unmount(D) ==
    [D EXCEPT !.loading = FALSE, !.message = NoMessage, !.timers = 0,
              !.searchResults = <<>>, !.showResults = FALSE]

\* lines 67-72: a success message starts the 3 s timer that clears it
updateMessage(D, text, type) ==
    [D EXCEPT !.message = [text |-> text, type |-> type],
              !.timers = IF type = "success" THEN @ + 1 ELSE @]

\* a request as the directory sees it
Sent(kind, arg) == [kind |-> kind, arg |-> arg]

\* a handler is invoked: the record of the previous one is dropped
startCall(D, caller) ==
    [D EXCEPT !.caller = caller, !.calls = @ + 1, !.arg = <<>>, !.onImport = <<>>,
              !.resolvedName = <<>>, !.resolvedWallet = <<>>,
              !.details = None, !.got = NoBiometrics,
              !.sent = <<>>, !.draft = None, !.returned = None]

\* invoke(...) of each request, up to the await
issue(D, pc, requests) ==
    [D EXCEPT !.pc = pc,
              !.reqs = @ \cup {requests[i] : i \in 1..Len(requests)},
              !.sent = @ \o requests]

\* the finally block of each handler
finishDialog(D) ==
    [D EXCEPT !.pc = "idle", !.loading = FALSE, !.arg = <<>>, !.onImport = <<>>]

\* the service's searchBeneficiaries called by another caller, up to its await
apiSearchBeneficiaries(D, guarantor) ==
    issue([startCall(D, "api") EXCEPT !.arg = guarantor],
          "search", <<Sent("search", guarantor)>>)

\* mutant: the dialog's search without its check of the guarantor
dialogSearchBeneficiariesUnchecked(D, guarantor) ==
    issue(updateMessage([startCall(D, "searchBeneficiaries")
                            EXCEPT !.loading = TRUE, !.arg = Trim(guarantor)],
                        "searching", "info"),
          "search", <<Sent("search", Trim(guarantor))>>)

\* the dialog's searchBeneficiaries lines 74-91, up to its await; modality,
\* proposal and contract are passed through and left out
dialogSearchBeneficiaries(D, guarantor) ==
    LET D1 == startCall(D, "searchBeneficiaries")
    IN  IF Trim(guarantor) = <<>>
        THEN updateMessage(D1, "guarantor required", "error")
        ELSE issue(updateMessage([D1 EXCEPT !.loading = TRUE, !.arg = Trim(guarantor)],
                                 "searching", "info"),
                   "search", <<Sent("search", Trim(guarantor))>>)

\* the dialog's searchBeneficiaries lines 91-106, or the direct caller resumed
afterSearch(D, member) ==
    LET settled == member.promise
        D1 == [D EXCEPT !.pc = "idle", !.returned = Some(member)]
    IN  IF D.caller = "api" THEN D1
        ELSE finishDialog(
                 IF ~settled.fulfilled
                 THEN [updateMessage(D1, "search failed", "error")
                          EXCEPT !.showResults = FALSE]
                 ELSE IF Len(settled.value) > 0
                 THEN updateMessage([D1 EXCEPT !.searchResults = settled.value,
                                               !.showResults = TRUE],
                                    "found", "success")
                 ELSE [updateMessage(D1, "none found", "error")
                          EXCEPT !.showResults = FALSE])

\* lines 119-122 and 166-169: the two biometric requests, up to await Promise.all
fetchBiometrics(D) ==
    issue(D, "bio", <<Sent("fingerprints", D.resolvedWallet),
                      Sent("facial", D.resolvedWallet)>>)

\* beneficiary.name || beneficiary.fullName || nome || "", trimmed: the
\* Beneficiary the service returns has no fullName and no nome key
resolveName(beneficiary) ==
    Trim(FirstTruthy(<<Some(beneficiary.name), None, None>>, <<>>))

\* importPatient lines 109-122, up to await Promise.all; list is the patients
\* list the onImport it holds has closed over
importPatient(D, beneficiary, list) ==
    LET resolvedWallet ==
            IF beneficiary.completeCardNumber # <<>>
            THEN beneficiary.completeCardNumber
            ELSE PadStart(beneficiary.healthInsurer, PadInsurer, "0")
                     \o PadStart(beneficiary.cardNumber, PadCard, "0")
        D1 == updateMessage([startCall(D, "importPatient")
                                EXCEPT !.loading = TRUE, !.onImport = list],
                            "importing", "info")
    IN  fetchBiometrics([D1 EXCEPT !.resolvedName = resolveName(beneficiary),
                                   !.resolvedWallet = resolvedWallet])

\* handleCardSearch lines 150-160, up to await getBeneficiaryDetails
handleCardSearch(D, cardNumber, list) ==
    LET D1 == startCall(D, "handleCardSearch")
    IN  IF Trim(cardNumber) = <<>>
        THEN updateMessage(D1, "card required", "error")
        ELSE issue(updateMessage([D1 EXCEPT !.loading = TRUE, !.arg = Trim(cardNumber),
                                            !.onImport = list],
                                 "searching card", "info"),
                   "detail", <<Sent("detail", detailQueryId(Trim(cardNumber)))>>)

\* mutant: a rejected detail treated as a Beneficiary without data
afterDetailContinues(D, member) ==
    fetchBiometrics([D EXCEPT !.details = Some(member),
                              !.resolvedName =
                                  IF member.promise.fulfilled
                                  THEN resolveName(member.promise.value) ELSE <<>>,
                              !.resolvedWallet =
                                  IF member.promise.fulfilled
                                     /\ member.promise.value.completeCardNumber # <<>>
                                  THEN member.promise.value.completeCardNumber
                                  ELSE D.arg])

\* handleCardSearch lines 160-169 or its catch: getBeneficiaryDetails settled
afterDetail(D, member) ==
    LET D1 == [D EXCEPT !.details = Some(member)]
    IN  IF ~member.promise.fulfilled
        THEN finishDialog(updateMessage(D1, "card search failed", "error"))
        ELSE LET beneficiary == member.promise.value
             IN  fetchBiometrics(
                     [D1 EXCEPT !.resolvedName = resolveName(beneficiary),
                                !.resolvedWallet =
                                    IF beneficiary.completeCardNumber # <<>>
                                    THEN beneficiary.completeCardNumber
                                    ELSE D.arg])

\* lines 128 and 175: the finger of an imported fingerprint
importedFinger(fp) ==
    IF IsNumber(fp.fingerCode) THEN getFingerNameByCode(fp.fingerCode) ELSE <<"Dedo">>

\* mutant: the entries without data are kept
importedBiometricsUnfiltered(fingerprints) ==
    Map(LAMBDA fp : [finger |-> importedFinger(fp), data |-> fp.biometry], fingerprints)

\* lines 127-130 and 174-177: the fetched fingerprints as digitalBiometrics
importedBiometrics(fingerprints) ==
    SelectSeq(Map(LAMBDA fp : [finger |-> importedFinger(fp), data |-> fp.biometry],
                  fingerprints),
              LAMBDA b : b.data # <<>>)

\* lines 132-139 and 179-186
newPatient(D, fingerprints, facialBiometry) ==
    Patient(0, D.resolvedName, D.resolvedWallet, facialBiometry,
            importedBiometrics(fingerprints), TRUE)

\* Promise.all over the two members, then lines 124-147 or 171-194; the
\* draft set here is the one handed to onImport
afterBiometrics(D, got) ==
    LET members == <<got.fingerprints, got.facial>>
        D1 == [D EXCEPT !.got = got]
    IN  IF \E i \in 1..2 : members[i] # None /\ ~members[i][1].promise.fulfilled
        THEN finishDialog(updateMessage(D1, "import failed", "error"))
        ELSE IF \E i \in 1..2 : members[i] = None
        THEN D1
        ELSE finishDialog(updateMessage(
                 [D1 EXCEPT !.draft = Some(newPatient(D, got.fingerprints[1].promise.value,
                                                      got.facial[1].promise.value))],
                 "imported", "success"))

\* a request of the dialog, or of the direct search, settles
dialogSettles(D, r, outcome) ==
    LET D1 == [D EXCEPT !.reqs = @ \ {r}]
    IN  CASE D.pc = "search" /\ r.kind = "search" ->
                afterSearch(D1, [outcome |-> outcome,
                                 promise |-> searchBeneficiaries(D.arg, outcome)])
          [] D.pc = "detail" /\ r.kind = "detail" ->
                afterDetail(D1, [outcome |-> outcome,
                                 promise |-> getBeneficiaryDetails(D.arg, outcome)])
          [] D.pc = "bio" /\ r.kind = "fingerprints" ->
                afterBiometrics(D1, [D.got EXCEPT !.fingerprints =
                                        Some([outcome |-> outcome,
                                              promise |-> getFingerprints(outcome)])])
          [] D.pc = "bio" /\ r.kind = "facial" ->
                afterBiometrics(D1, [D.got EXCEPT !.facial =
                                        Some([outcome |-> outcome,
                                              promise |-> getFacialBiometry(outcome)])])
          [] OTHER -> D1    \* the Promise.all that waited for it has already rejected

----------------------------------------------------------------------------
(* BiometricUploader: the payload editor and the preview's image source *)

\* String.prototype.startsWith
startsWith(s, prefix) ==
    Len(s) >= Len(prefix) /\ SubSeq(s, 1, Len(prefix)) = prefix

DataImage == <<"d", "a", "t", "a", ":", "i", "m", "a", "g", "e">>
JpegSignature == <<"/", "9", "j", "/">>
PngSignature == <<"i", "V", "B", "O", "R">>
GifSignature == <<"R", "0", "l", "G", "O", "D">>

\* mutant: the payload always wrapped
getImageSrcAlwaysWraps(base64) ==
    IF startsWith(base64, JpegSignature)
    THEN <<"d", "a", "t", "a", ":", "i", "m", "a", "g", "e", "/", "j", "p", "e", "g", ";", "b", "a", "s", "e", "6", "4", ",">> \o base64
    ELSE IF startsWith(base64, PngSignature)
    THEN <<"d", "a", "t", "a", ":", "i", "m", "a", "g", "e", "/", "p", "n", "g", ";", "b", "a", "s", "e", "6", "4", ",">> \o base64
    ELSE IF startsWith(base64, GifSignature)
    THEN <<"d", "a", "t", "a", ":", "i", "m", "a", "g", "e", "/", "g", "i", "f", ";", "b", "a", "s", "e", "6", "4", ",">> \o base64
    ELSE <<"d", "a", "t", "a", ":", "i", "m", "a", "g", "e", ";", "b", "a", "s", "e", "6", "4", ",">> \o base64

getImageSrc(base64) ==
    IF startsWith(base64, DataImage) THEN base64
    ELSE IF startsWith(base64, JpegSignature)
    THEN <<"d", "a", "t", "a", ":", "i", "m", "a", "g", "e", "/", "j", "p", "e", "g", ";", "b", "a", "s", "e", "6", "4", ",">> \o base64
    ELSE IF startsWith(base64, PngSignature)
    THEN <<"d", "a", "t", "a", ":", "i", "m", "a", "g", "e", "/", "p", "n", "g", ";", "b", "a", "s", "e", "6", "4", ",">> \o base64
    ELSE IF startsWith(base64, GifSignature)
    THEN <<"d", "a", "t", "a", ":", "i", "m", "a", "g", "e", "/", "g", "i", "f", ";", "b", "a", "s", "e", "6", "4", ",">> \o base64
    ELSE <<"d", "a", "t", "a", ":", "i", "m", "a", "g", "e", ";", "b", "a", "s", "e", "6", "4", ",">> \o base64

Base64Alphabet ==
    { "A", "B", "C", "D", "E", "F", "G", "H", "I", "J", "K", "L", "M", "N", "O", "P",
      "Q", "R", "S", "T", "U", "V", "W", "X", "Y", "Z", "a", "b", "c", "d", "e", "f",
      "g", "h", "i", "j", "k", "l", "m", "n", "o", "p", "q", "r", "s", "t", "u", "v",
      "w", "x", "y", "z", "0", "1", "2", "3", "4", "5", "6", "7", "8", "9", "+", "/" }

\* window.atob throws: the forgiving base64 decode of the platform fails.
\* ASCII whitespace is dropped, one or two "=" are dropped from the end of a
\* text whose length is a multiple of four, and what is left must be of the
\* alphabet and not one character more than a multiple of four.
atobThrows(s) ==
    LET data == SelectSeq(s, LAMBDA c : ~IsSpace(c))
        n == Len(data)
        cut == IF n % 4 = 0 /\ n >= 2 /\ data[n] = "=" /\ data[n - 1] = "=" THEN 2
               ELSE IF n % 4 = 0 /\ n >= 1 /\ data[n] = "=" THEN 1
               ELSE 0
        rest == SubSeq(data, 1, n - cut)
    IN  \/ Len(rest) % 4 = 1
        \/ \E i \in 1..Len(rest) : rest[i] \notin Base64Alphabet

\* event.target.result.split(",")[1]; a file read as a data URL has a comma
afterComma(s) ==
    LET commas == {i \in 1..Len(s) : s[i] = ","}
        first == Min(commas)
        later == {i \in commas : i > first}
        last == IF later = {} THEN Len(s) + 1 ELSE Min(later)
    IN  SubSeq(s, first + 1, last - 1)

\* no BiometricUploader is mounted
NoUploader ==
    [mounted |-> FALSE, base64Value |-> <<>>, isEditMode |-> FALSE,
     editableBase64 |-> <<>>, reading |-> None, parent |-> <<>>, ncalls |-> 0,
     alert |-> "none"]

\* useState(initialValue || ""), the parent holding initialValue
Uploader(initialValue) ==
    [NoUploader EXCEPT !.mounted = TRUE, !.base64Value = initialValue,
                       !.parent = initialValue]

\* onBiometricChange(value): the parent stores the value (setFacialBiometric,
\* handleUpdateDigitalBiometric) and hands it back as initialValue, which the
\* effect on initialValue copies into base64Value
onBiometricChange(U, value) ==
    [U EXCEPT !.parent = value, !.ncalls = @ + 1, !.base64Value = value]

startEditMode(U) ==
    [U EXCEPT !.editableBase64 = U.base64Value, !.isEditMode = TRUE, !.alert = "none"]

\* mutant: the payload saved without the decoding test
saveEditedBase64Unchecked(U) ==
    onBiometricChange([U EXCEPT !.base64Value = Trim(U.editableBase64),
                                !.isEditMode = FALSE, !.alert = "none"],
                      Trim(U.editableBase64))

saveEditedBase64(U) ==
    IF atobThrows(Trim(U.editableBase64))
    THEN [U EXCEPT !.alert = "invalid"]
    ELSE onBiometricChange([U EXCEPT !.base64Value = Trim(U.editableBase64),
                                     !.isEditMode = FALSE, !.alert = "none"],
                           Trim(U.editableBase64))

cancelEditMode(U) == [U EXCEPT !.isEditMode = FALSE, !.editableBase64 = <<>>]

\* reader.onload of processFile
processFile(U, result) ==
    onBiometricChange([U EXCEPT !.base64Value = afterComma(result), !.reading = None],
                      afterComma(result))

\* payloads a patient record may hold when the form opens
InitialValues ==
    { <<>>,
      <<"/", "9", "j", "/", "4", "A">>,
      <<"i", "V", "B", "O", "R", "w">>,
      <<"R", "0", "l", "G", "O", "D", "l", "h">>,
      <<"d", "a", "t", "a", ":", "i", "m", "a", "g", "e", "/", "p", "n", "g", ";", "b", "a", "s", "e", "6", "4", ",", "i", "V", "B", "O", "R", "w">>,
      <<"d", "a", "t", "a", ":", "t", "e", "x", "t">>,
      <<"/", "9", "j">>,
      <<"A", "A", "A", "A">> }

\* what the user may have left in the textarea
Typed ==
    { <<>>, <<" ">>,
      <<" ", "/", "9", "j", "/", "\n">>,
      <<"i", "V", "B", "O", "R", "w", "=", "=">>,
      <<"R", "0", "l", "G", " ", "O", "D">>,
      <<"A", "=", "=", "=">>,
      <<"A", "A", "A", "A", "A">>,
      <<"i", "V", "B", "O", "R", "!">>,
      <<"d", "a", "t", "a", ":", "i", "m", "a", "g", "e", "/", "p", "n", "g", ";", "b", "a", "s", "e", "6", "4", ",", "i", "V", "B", "O", "R", "w">> }

\* files as FileReader.readAsDataURL reads them
FileResults ==
    { <<"d", "a", "t", "a", ":", "i", "m", "a", "g", "e", "/", "p", "n", "g", ";", "b", "a", "s", "e", "6", "4", ",", "i", "V", "B", "O", "R", "w", "=", "=">>,
      <<"d", "a", "t", "a", ":", ",">> }

----------------------------------------------------------------------------
(* The device-emulation managers: HotkeyManager, BiometryServerManager,    *)
(* WebcamEmulatorManager.  One record holds the mounted manager's state,  *)
(* the patients prop App hands it and its backend calls in flight.         *)

Status(text, isError) == [text |-> text, isError |-> isError]

\* no manager is mounted
NoManager ==
    [kind |-> "none", patients |-> <<>>, selectedPatientId |-> None,
     isActive |-> FALSE, statusMessage |-> Status("inactive", FALSE),
     sourceType |-> "image", videoFilePath |-> <<>>,
     calls |-> {}, ncalls |-> 0, ntoggles |-> 0, settled |-> None]

\* invoke(...): a backend call is in flight; n tells the calls apart
invokeBackend(M, op, data) ==
    [M EXCEPT !.ncalls = @ + 1,
              !.calls = @ \cup {[n |-> M.ncalls + 1, op |-> op,
                                 sourceType |-> M.sourceType, data |-> data]}]

\* useState defaults and the effect run on mount: checkStatus()
Manager(kind, list) ==
    invokeBackend([NoManager EXCEPT !.kind = kind, !.patients = list],
                  "check", <<>>)

\* patients.find(p => p.id === selectedPatientId)
findSelected(M) ==
    LET hits == {i \in 1..Len(M.patients) : Some(M.patients[i].id) = M.selectedPatientId}
    IN  IF hits = {} THEN None ELSE Some(M.patients[Min(hits)])

\* mutant: the flag set before the backend answered
toggleHotkeyOptimistic(M) ==
    IF M.isActive THEN invokeBackend(M, "stop", <<>>)
    ELSE LET selectedPatient == findSelected(M)
         IN  IF selectedPatient = None
             THEN [M EXCEPT !.statusMessage = Status("select a patient", TRUE)]
             ELSE invokeBackend([M EXCEPT !.statusMessage = Status("checking", FALSE),
                                          !.isActive = TRUE],
                                "start", selectedPatient[1].wallet)

\* HotkeyManager.toggleHotkey up to its await
toggleHotkey(M) ==
    IF M.isActive THEN invokeBackend(M, "stop", <<>>)
    ELSE LET selectedPatient == findSelected(M)
         IN  IF selectedPatient = None
             THEN [M EXCEPT !.statusMessage = Status("select a patient", TRUE)]
             ELSE invokeBackend([M EXCEPT !.statusMessage = Status("checking", FALSE)],
                                "start", selectedPatient[1].wallet)

\* BiometryServerManager.toggleServer up to its await
toggleServer(M) ==
    IF M.isActive THEN invokeBackend(M, "stop", <<>>)
    ELSE LET selectedPatient == findSelected(M)
         IN  IF selectedPatient = None
             THEN [M EXCEPT !.statusMessage = Status("select a patient", TRUE)]
             ELSE LET biometricData ==
                          Map(LAMBDA b : b.data, selectedPatient[1].digitalBiometrics)
                  IN  IF Len(biometricData) = 0
                      THEN [M EXCEPT !.statusMessage = Status("no digital biometrics", TRUE)]
                      ELSE invokeBackend(M, "start", biometricData)

CameraIndex == <<"0">>

\* WebcamEmulatorManager.toggleEmulator up to its await
toggleEmulator(M) ==
    IF M.isActive THEN invokeBackend(M, "stop", <<>>)
    ELSE CASE M.sourceType = "image" ->
                \* !selectedPatientId: null, and 0 as well
                IF M.selectedPatientId = None \/ M.selectedPatientId = Some(0)
                THEN [M EXCEPT !.statusMessage = Status("select a patient", TRUE)]
                ELSE LET patient == findSelected(M)
                     IN  IF patient = None \/ patient[1].facialBiometric = <<>>
                         THEN [M EXCEPT !.statusMessage = Status("no facial biometric", TRUE)]
                         ELSE invokeBackend(M, "start", patient[1].facialBiometric)
           [] M.sourceType = "video" ->
                IF M.videoFilePath = <<>>
                THEN [M EXCEPT !.statusMessage = Status("select a video", TRUE)]
                ELSE invokeBackend(M, "start", M.videoFilePath)
           [] M.sourceType = "camera" -> invokeBackend(M, "start", CameraIndex)

toggle(M) ==
    LET M1 == [M EXCEPT !.ntoggles = @ + 1]
    IN  CASE M.kind = "hotkey" -> toggleHotkey(M1)
          [] M.kind = "biometry" -> toggleServer(M1)
          [] M.kind = "webcam" -> toggleEmulator(M1)

\* how the backend may answer a call: resolved with a boolean, or rejected
BackendOutcomes ==
    { [ok |-> TRUE, value |-> TRUE], [ok |-> TRUE, value |-> FALSE],
      [ok |-> FALSE, value |-> FALSE] }

\* the handler, or the mount effect, resumes after its await
backendSettles(M, call, outcome) ==
    LET M1 == [M EXCEPT !.calls = @ \ {call},
                        !.settled = Some([call |-> call, outcome |-> outcome])]
    IN  CASE call.op = "check" ->
                \* the check*Status services catch a rejection and return false
                LET isActive == outcome.ok /\ outcome.value
                IN  [M1 EXCEPT !.isActive = isActive,
                               !.statusMessage = IF isActive
                                                 THEN Status("active, unknown source", FALSE)
                                                 ELSE @]
          [] call.op = "start" ->
                IF outcome.ok
                THEN [M1 EXCEPT !.isActive = TRUE, !.statusMessage = Status("active", FALSE)]
                ELSE [M1 EXCEPT !.statusMessage = Status("failed", TRUE)]
          [] call.op = "stop" ->
                IF outcome.ok
                THEN [M1 EXCEPT !.isActive = FALSE,
                                !.statusMessage = Status("inactive", FALSE)]
                ELSE [M1 EXCEPT !.statusMessage = Status("failed", TRUE)]

\* the options of the patient select: every patient, or for the webcam those
\* with a facial biometric
selectable(M) ==
    {M.patients[i].id : i \in {k \in 1..Len(M.patients) :
                                 M.kind = "webcam" => M.patients[k].facialBiometric # <<>>}}

\* handlePatientSelect: value ? parseInt(value, 10) : null
handlePatientSelect(M, choice) ==
    [M EXCEPT !.selectedPatientId = choice,
              !.sourceType = IF M.kind = "webcam" THEN "image" ELSE @]

PBare == Patient(1, NameEd, Short42, <<>>, <<>>, TRUE)
VideoPath == <<"v">>

\* the patients App may hold
ManagerLists == { <<>>, <<PAna, PLocal>>, <<PBare>> }
ManagerKinds == {"hotkey", "biometry", "webcam"}

----------------------------------------------------------------------------
(* Initial states *)

IdleRun ==
    /\ syncLoading = FALSE /\ hsnap = <<>> /\ hpatient = None /\ hresults = <<>>
    /\ hsaving = <<>> /\ hcount = <<0, 0>> /\ halert = NoAlert
    /\ spc = "idle" /\ scaller = "none" /\ sarg = <<>> /\ squeue = <<>> /\ scur = None
    /\ sidx = 0 /\ sgot = NoneSettled /\ sresults = <<>> /\ reqs = {} /\ sent = <<>>
    /\ nsyncs = 0
    /\ assigned = {}
    /\ dlg = DialogIdle

\* no panel beside the list is in use
IdlePanels == upl = NoUploader /\ mgr = NoManager

\* PatientManager mounted, load_patients not yet answered
Init ==
    /\ persisted \in InitialStores
    /\ patients = <<>> /\ loading = TRUE /\ error = FALSE
    /\ modal = "none" /\ editing = None /\ ops = <<>> /\ nops = 0
    /\ hpc = "idle"
    /\ IdleRun /\ IdlePanels

\* the service used on its own, by a caller other than PatientManager
InitSvc ==
    /\ persisted = <<>>
    /\ patients = <<>> /\ loading = TRUE /\ error = FALSE
    /\ modal = "none" /\ editing = None /\ ops = <<>> /\ nops = 0
    /\ hpc = "api"
    /\ IdleRun /\ IdlePanels

----------------------------------------------------------------------------
(* PatientManager: loading and the dialogs *)

\* useEffect init(), load_patients resolved
LoadPatients ==
    /\ loading /\ hpc # "api"
    /\ patients' = Map(toPatientCamel, persisted)
    /\ loading' = FALSE
    /\ assigned' = {persisted[i].id : i \in 1..Len(persisted)}
    /\ UNCHANGED <<persisted, error, modal, editing, ops, nops, runVars, countVars, dlgVars, panelVars>>

\* useEffect init(), load_patients rejected
LoadPatientsFails ==
    /\ loading /\ hpc # "api"
    /\ error' = TRUE
    /\ loading' = FALSE
    /\ UNCHANGED <<storeVars, modal, editing, ops, nops, runVars, countVars, histVars, dlgVars, panelVars>>

Ready == ~loading /\ ~error

\* the bounds of a run
MayStartOp == nops < MaxOps /\ (nsyncs > 0 => nops < MaxOpsSync)
MayStartSync == nsyncs < MaxSyncs /\ nops <= MaxOpsSync

InList(list) == {list[i] : i \in 1..Len(list)}

\* the "Adicionar" button
OpenAdd ==
    /\ Ready /\ modal = "none" /\ MayStartOp
    /\ modal' = "addEdit" /\ editing' = None
    /\ UNCHANGED <<storeVars, loading, error, ops, nops, runVars, countVars, histVars, dlgVars, panelVars>>

\* the edit button of a row
OpenEdit ==
    /\ Ready /\ modal = "none" /\ MayStartOp
    /\ \E p \in InList(patients) :
          /\ modal' = "addEdit" /\ editing' = Some(p)
    /\ UNCHANGED <<storeVars, loading, error, ops, nops, runVars, countVars, histVars, dlgVars, panelVars>>

\* the "Importar" button
OpenImport ==
    /\ Ready /\ modal = "none" /\ MayStartOp
    /\ dlg.pc = "idle"     \* bound: one dialog at a time has a handler running
    /\ modal' = "import" /\ editing' = None
    /\ UNCHANGED <<storeVars, loading, error, ops, nops, runVars, countVars, histVars, dlgVars, panelVars>>

\* onCancel of either dialog
CancelDialog ==
    /\ modal # "none"
    /\ modal = "import" => ~dlg.loading      \* "Cancelar" is disabled while loading
    /\ modal' = "none" /\ editing' = None
    /\ dlg' = Unmount(dlg)
    /\ UNCHANGED <<storeVars, loading, error, ops, nops, runVars, countVars, histVars, panelVars>>

----------------------------------------------------------------------------
(* PatientManager: the store handlers, up to await savePatients *)

\* mutant: the number of records taken for the highest id
MaxIdOfCount(list) == Len(list)

MaxIdOf(list) == IF list = <<>> THEN 0
                 ELSE LET ids == {list[i].id : i \in 1..Len(list)} \cup {0}
                      IN  CHOOSE m \in ids : \A x \in ids : x <= m

Op(kind, list) == [kind |-> kind, list |-> list]

\* mutant: a new patient keeps the id of its draft
savedListKeepsId(list, patient) ==
    IF patient.id = 0
    THEN Append(list, patient)
    ELSE Map(LAMBDA p : IF p.id = patient.id THEN patient ELSE p, list)

\* lines 362-374: the list handleSavePatient is about to persist
savedList(list, patient) ==
    IF patient.id = 0
    THEN Append(list, [patient EXCEPT !.id = MaxIdOf(list) + 1])
    ELSE Map(LAMBDA p : IF p.id = patient.id THEN patient ELSE p, list)

\* lines 388-390
importedList(list, patient) == Append(list, [patient EXCEPT !.id = MaxIdOf(list) + 1])

\* mutant: the delete keeps only the records before the deleted one
deletedListTruncates(list, patient) == SelectSeq(list, LAMBDA p : p.id < patient.id)

\* line 407
deletedList(list, patient) == SelectSeq(list, LAMBDA p : p.id # patient.id)

\* AddEditPatient.handleSave: the patient the form hands to onSave
formPatient ==
    IF editing = None THEN ManualDraft
    ELSE [editing[1] EXCEPT !.name = NameEd]

handleSavePatient ==
    /\ modal = "addEdit" /\ MayStartOp
    /\ ops' = Append(ops, Op(IF formPatient.id = 0 THEN "create" ELSE "update",
                              savedList(patients, formPatient)))
    /\ nops' = nops + 1
    /\ UNCHANGED <<storeVars, loading, error, modal, editing, runVars, countVars, histVars, dlgVars, panelVars>>

handleImportPatient ==
    /\ modal = "import" /\ MayStartOp
    /\ ops' = Append(ops, Op("import", importedList(patients, ImportDraft)))
    /\ nops' = nops + 1
    /\ UNCHANGED <<storeVars, loading, error, modal, editing, runVars, countVars, histVars, dlgVars, panelVars>>

\* confirm() answered yes
handleDeletePatient ==
    /\ Ready /\ modal = "none" /\ MayStartOp
    /\ \E p \in InList(patients) :
          ops' = Append(ops, Op("delete", deletedList(patients, p)))
    /\ nops' = nops + 1
    /\ UNCHANGED <<storeVars, loading, error, modal, editing, runVars, countVars, histVars, dlgVars, panelVars>>

RemoveAt(s, i) == SubSeq(s, 1, i - 1) \o SubSeq(s, i + 1, Len(s))

\* savePatients: what save_patients writes
savePatients(list) == Map(toPatientSnake, list)

\* save_patients resolved: the handler resumes after its await
StoreSaveResolves ==
    \E i \in 1..Len(ops) :
        /\ persisted' = savePatients(ops[i].list)
        /\ patients' = ops[i].list
        /\ ops' = RemoveAt(ops, i)
        /\ modal' = IF \/ ops[i].kind \in {"create", "update"} /\ modal = "addEdit"
                       \/ ops[i].kind = "import" /\ modal = "import"
                    THEN "none" ELSE modal
        /\ editing' = IF ops[i].kind \in {"create", "update"} THEN None ELSE editing
        /\ assigned' = assigned \cup {ops[i].list[k].id : k \in 1..Len(ops[i].list)}
        /\ dlg' = IF ops[i].kind = "import" /\ modal = "import" THEN Unmount(dlg) ELSE dlg
        /\ UNCHANGED <<loading, error, nops, runVars, countVars, panelVars>>

\* save_patients rejected: the catch block alerts, nothing is set
StoreSaveRejects ==
    \E i \in 1..Len(ops) :
        /\ ops' = RemoveAt(ops, i)
        /\ UNCHANGED <<storeVars, loading, error, modal, editing, nops, runVars, countVars, histVars, dlgVars, panelVars>>

----------------------------------------------------------------------------
(* PatientManager: the synchronize handlers *)

handleSyncPatient ==
    /\ Ready /\ modal = "none" /\ ~syncLoading /\ hpc = "idle" /\ MayStartSync
    /\ \E p \in InList(patients) :
          /\ p.imported
          /\ Becomes(syncPatient([Run EXCEPT !.syncLoading = TRUE, !.hpc = "syncOne",
                                             !.hsnap = patients, !.hpatient = Some(p),
                                             !.scaller = "syncPatient",
                                             !.sresults = <<>>], p))
    /\ nsyncs' = nsyncs + 1
    /\ UNCHANGED <<storeVars, uiVars, histVars, dlgVars, panelVars>>

\* confirm() answered yes
handleSyncAllPatients ==
    /\ Ready /\ modal = "none" /\ ~syncLoading /\ hpc = "idle" /\ MayStartSync
    /\ \E i \in 1..Len(patients) : patients[i].imported
    /\ Becomes(syncAllPatients([Run EXCEPT !.syncLoading = TRUE, !.hpc = "syncAll",
                                           !.hsnap = patients], patients))
    /\ nsyncs' = nsyncs + 1
    /\ UNCHANGED <<storeVars, uiVars, histVars, dlgVars, panelVars>>

\* save_patients of a synchronize handler resolved
SyncSaveResolves ==
    /\ hpc \in {"saveOne", "saveAll"}
    /\ persisted' = savePatients(hsaving)
    /\ patients' = hsaving
    /\ Becomes(IF hpc = "saveOne"
               THEN finishHandler(Run, Alert("ok", 0, 0))
               ELSE processResults([Run EXCEPT !.hcount = <<@[1] + 1, @[2]>>]))
    /\ assigned' = assigned \cup {hsaving[k].id : k \in 1..Len(hsaving)}
    /\ UNCHANGED <<uiVars, countVars, dlgVars, panelVars>>

\* mutant: the list is set in memory although its persist failed
SyncSaveRejectsOptimistic ==
    /\ hpc \in {"saveOne", "saveAll"}
    /\ patients' = hsaving
    /\ Becomes(finishHandler(Run, Alert("persist failed", 0, 0)))
    /\ UNCHANGED <<persisted, uiVars, countVars, histVars, dlgVars, panelVars>>

\* save_patients of a synchronize handler rejected: catch, alert, finally
SyncSaveRejects ==
    /\ hpc \in {"saveOne", "saveAll"}
    /\ Becomes(finishHandler(Run, Alert("persist failed", 0, 0)))
    /\ UNCHANGED <<storeVars, uiVars, countVars, histVars, dlgVars, panelVars>>

----------------------------------------------------------------------------
(* The directory and the pacing timer *)

RequestResolves ==
    \E r \in reqs : \E outcome \in Outcomes(r.kind) :
        /\ outcome.ok
        /\ Becomes(requestSettles(Run, r, outcome))
        /\ UNCHANGED <<storeVars, uiVars, countVars, histVars, dlgVars, panelVars>>

RequestRejects ==
    \E r \in reqs : \E outcome \in Outcomes(r.kind) :
        /\ ~outcome.ok
        /\ Becomes(requestSettles(Run, r, outcome))
        /\ UNCHANGED <<storeVars, uiVars, countVars, histVars, dlgVars, panelVars>>

\* setTimeout(resolve, 200) fired
PacingTimerFires ==
    /\ spc = "pacing"
    /\ Becomes(nextPatient(Run))
    /\ UNCHANGED <<storeVars, uiVars, countVars, histVars, dlgVars, panelVars>>

----------------------------------------------------------------------------
(* The service called directly *)

ApiSyncPatient ==
    /\ hpc = "api" /\ spc = "idle" /\ scaller = "none"
    /\ \E p \in ApiPatients :
          Becomes(syncPatient([Run EXCEPT !.scaller = "syncPatient",
                                          !.sresults = <<>>], p))
    /\ UNCHANGED <<storeVars, uiVars, nsyncs, histVars, dlgVars, panelVars>>

ApiSyncAllPatients ==
    /\ hpc = "api" /\ spc = "idle" /\ scaller = "none"
    /\ \E list \in ApiLists : Becomes(syncAllPatients(Run, list))
    /\ UNCHANGED <<storeVars, uiVars, nsyncs, histVars, dlgVars, panelVars>>

\* the adapter called directly: loadPatients()
ApiLoadPatients ==
    /\ hpc = "api" /\ loading
    /\ patients' = loadPatients(persisted)
    /\ loading' = FALSE
    /\ UNCHANGED <<persisted, error, modal, editing, ops, nops, runVars, countVars,
                   histVars, dlgVars, panelVars>>

\* the adapter called directly: savePatients(list) with the list just loaded;
\* the caller loads again before it saves again
ApiSavePatients ==
    /\ hpc = "api" /\ ~loading /\ nops < MaxOps
    /\ persisted' = savePatients(patients)
    /\ nops' = nops + 1
    /\ loading' = TRUE
    /\ UNCHANGED <<patients, error, modal, editing, ops, runVars, countVars,
                   histVars, dlgVars, panelVars>>

----------------------------------------------------------------------------
(* BiometricUploader inside the edit form *)

\* the buttons beside the drop zone are rendered outside edit mode, the last
\* three only for a payload that is not empty
MayUseDropZone == upl.mounted /\ ~upl.isEditMode
MayCallBack == upl.ncalls < MaxChanges

\* "Editar Base64"
StartEditMode ==
    /\ MayUseDropZone /\ upl.base64Value # <<>>
    /\ upl' = startEditMode(upl)
    /\ UNCHANGED <<storeVars, uiVars, runVars, countVars, histVars, dlgVars, mgr>>

\* the textarea's onChange
TypeBase64 ==
    /\ upl.mounted /\ upl.isEditMode
    /\ \E text \in Typed : upl' = [upl EXCEPT !.editableBase64 = text]
    /\ UNCHANGED <<storeVars, uiVars, runVars, countVars, histVars, dlgVars, mgr>>

\* "Salvar"
SaveEditedBase64 ==
    /\ upl.mounted /\ upl.isEditMode /\ MayCallBack
    /\ upl' = saveEditedBase64(upl)
    /\ UNCHANGED <<storeVars, uiVars, runVars, countVars, histVars, dlgVars, mgr>>

\* "Cancelar"
CancelEditMode ==
    /\ upl.mounted /\ upl.isEditMode
    /\ upl' = cancelEditMode(upl)
    /\ UNCHANGED <<storeVars, uiVars, runVars, countVars, histVars, dlgVars, mgr>>

\* "Limpar"
ClearPayload ==
    /\ MayUseDropZone /\ upl.base64Value # <<>> /\ MayCallBack
    /\ upl' = onBiometricChange([upl EXCEPT !.base64Value = <<>>], <<>>)
    /\ UNCHANGED <<storeVars, uiVars, runVars, countVars, histVars, dlgVars, mgr>>

\* a file dropped or selected: processFile up to reader.readAsDataURL
ChooseFile ==
    /\ MayUseDropZone /\ upl.reading = None
    /\ \E result \in FileResults : upl' = [upl EXCEPT !.reading = Some(result)]
    /\ UNCHANGED <<storeVars, uiVars, runVars, countVars, histVars, dlgVars, mgr>>

\* reader.onload
FileLoaded ==
    /\ upl.mounted /\ upl.reading # None /\ MayCallBack
    /\ upl' = processFile(upl, upl.reading[1])
    /\ UNCHANGED <<storeVars, uiVars, runVars, countVars, histVars, dlgVars, mgr>>

----------------------------------------------------------------------------
(* A device-emulation manager on its tab *)

\* the patient select
SelectPatient ==
    /\ mgr.kind # "none"
    /\ mgr.kind = "webcam" => mgr.sourceType = "image"
    /\ \E choice \in {None} \cup {Some(id) : id \in selectable(mgr)} :
          mgr' = handlePatientSelect(mgr, choice)
    /\ UNCHANGED <<storeVars, uiVars, runVars, countVars, histVars, dlgVars, upl>>

\* the radio buttons of the webcam source, handleVideoFileSelect and
\* handleCameraSelect
SelectSource ==
    /\ mgr.kind = "webcam"
    /\ \/ \E sourceType \in {"image", "video", "camera"} :
             mgr' = [mgr EXCEPT !.sourceType = sourceType]
       \/ mgr.sourceType = "video"
          /\ mgr' = [mgr EXCEPT !.videoFilePath = VideoPath]
    /\ UNCHANGED <<storeVars, uiVars, runVars, countVars, histVars, dlgVars, upl>>

\* the toggle button, which is never disabled
Toggle ==
    /\ mgr.kind # "none" /\ mgr.ntoggles < MaxToggles
    /\ mgr' = toggle(mgr)
    /\ UNCHANGED <<storeVars, uiVars, runVars, countVars, histVars, dlgVars, upl>>

BackendResolves ==
    /\ \E call \in mgr.calls : \E outcome \in BackendOutcomes :
          outcome.ok /\ mgr' = backendSettles(mgr, call, outcome)
    /\ UNCHANGED <<storeVars, uiVars, runVars, countVars, histVars, dlgVars, upl>>

BackendRejects ==
    /\ \E call \in mgr.calls : \E outcome \in BackendOutcomes :
          ~outcome.ok /\ mgr' = backendSettles(mgr, call, outcome)
    /\ UNCHANGED <<storeVars, uiVars, runVars, countVars, histVars, dlgVars, upl>>

\* App's setPatients, called through onPatientsChanged by a handler of
\* PatientManager that was still waiting for its persist when the tab changed
PatientsChanged ==
    /\ mgr.kind # "none"
    /\ \E list \in ManagerLists : list # mgr.patients /\ mgr' = [mgr EXCEPT !.patients = list]
    /\ UNCHANGED <<storeVars, uiVars, runVars, countVars, histVars, dlgVars, upl>>

----------------------------------------------------------------------------
(* The import dialog inside PatientManager, and the search called directly *)

\* the buttons of the dialog are disabled while loading
MayStartCall == modal = "import" /\ ~dlg.loading /\ dlg.calls < MaxCalls

\* the "Buscar" button of the advanced search; the button is also disabled
\* for a blank guarantor, the handler checks it again
DialogSearch ==
    /\ MayStartCall
    /\ \E guarantor \in Guarantors : dlg' = dialogSearchBeneficiaries(dlg, guarantor)
    /\ UNCHANGED <<storeVars, uiVars, runVars, countVars, histVars, panelVars>>

\* the "Importar" button of a search result
DialogImport ==
    /\ MayStartCall /\ MayStartOp
    /\ dlg.showResults
    /\ \E beneficiary \in InList(dlg.searchResults) :
          dlg' = importPatient(dlg, beneficiary, patients)
    /\ UNCHANGED <<storeVars, uiVars, runVars, countVars, histVars, panelVars>>

\* the "Buscar" button of the card search
DialogCardSearch ==
    /\ MayStartCall /\ MayStartOp
    /\ \E cardNumber \in CardNumbers : dlg' = handleCardSearch(dlg, cardNumber, patients)
    /\ UNCHANGED <<storeVars, uiVars, runVars, countVars, histVars, panelVars>>

\* setTimeout(() => setMessage(null), 3000) fired
MessageTimerFires ==
    /\ modal = "import" /\ dlg.timers > 0
    /\ dlg' = [dlg EXCEPT !.timers = @ - 1, !.message = NoMessage]
    /\ UNCHANGED <<storeVars, uiVars, runVars, countVars, histVars, panelVars>>

\* a request settles and the handler that awaited it runs on; when it gets
\* to onImport(newPatient), handleImportPatient runs up to await savePatients
handlerResumes(r, outcome) ==
    LET D == dialogSettles(dlg, r, outcome)
    IN  /\ dlg' = IF modal = "import" THEN D ELSE Unmount(D)
        /\ IF D.draft # None /\ dlg.draft = None
           THEN /\ ops' = Append(ops, Op("import",
                                         importedList(dlg.onImport, D.draft[1])))
                /\ nops' = nops + 1
           ELSE UNCHANGED <<ops, nops>>

DialogRequestResolves ==
    \E r \in dlg.reqs : \E outcome \in Outcomes(r.kind) :
        /\ outcome.ok
        /\ handlerResumes(r, outcome)
        /\ UNCHANGED <<storeVars, loading, error, modal, editing, runVars, countVars, histVars, panelVars>>

DialogRequestRejects ==
    \E r \in dlg.reqs : \E outcome \in Outcomes(r.kind) :
        /\ ~outcome.ok
        /\ handlerResumes(r, outcome)
        /\ UNCHANGED <<storeVars, loading, error, modal, editing, runVars, countVars, histVars, panelVars>>

\* patientSyncService.searchBeneficiaries({guarantor}) called directly
ApiSearchBeneficiaries ==
    /\ hpc = "api" /\ dlg.pc = "idle" /\ dlg.calls < MaxCalls
    /\ \E guarantor \in Guarantors : dlg' = apiSearchBeneficiaries(dlg, guarantor)
    /\ UNCHANGED <<storeVars, uiVars, runVars, countVars, histVars, panelVars>>

----------------------------------------------------------------------------
(* Specifications *)

Next ==
    \/ LoadPatients \/ LoadPatientsFails
    \/ OpenAdd \/ OpenEdit \/ OpenImport \/ CancelDialog
    \/ handleSavePatient \/ handleImportPatient \/ handleDeletePatient
    \/ StoreSaveResolves \/ StoreSaveRejects
    \/ handleSyncPatient \/ handleSyncAllPatients
    \/ SyncSaveResolves \/ SyncSaveRejects
    \/ RequestResolves \/ RequestRejects \/ PacingTimerFires

Spec == Init /\ [][Next]_vars

\* PatientManager with its store handlers alone, no synchronize started
NextStore ==
    \/ LoadPatients \/ LoadPatientsFails
    \/ OpenAdd \/ OpenEdit \/ OpenImport \/ CancelDialog
    \/ handleSavePatient \/ handleImportPatient \/ handleDeletePatient
    \/ StoreSaveResolves \/ StoreSaveRejects

SpecStore == Init /\ [][NextStore]_vars

NextSvc ==
    \/ ApiSyncPatient \/ ApiSyncAllPatients
    \/ RequestResolves \/ RequestRejects \/ PacingTimerFires

SpecSvc == InitSvc /\ [][NextSvc]_vars

\* the wire adapter used on its own, on whatever load_patients may send
InitWire ==
    /\ persisted \in RawStores
    /\ patients = <<>> /\ loading = TRUE /\ error = FALSE
    /\ modal = "none" /\ editing = None /\ ops = <<>> /\ nops = 0
    /\ hpc = "api"
    /\ IdleRun /\ IdlePanels

NextWire == ApiLoadPatients \/ ApiSavePatients

SpecWire == InitWire /\ [][NextWire]_vars

\* one BiometricUploader of an open edit form, on whatever payload the
\* record holds
InitUploader ==
    /\ persisted = <<>>
    /\ patients = <<>> /\ loading = FALSE /\ error = FALSE
    /\ modal = "addEdit" /\ editing = None /\ ops = <<>> /\ nops = 0
    /\ hpc = "idle"
    /\ IdleRun
    /\ upl \in {Uploader(initialValue) : initialValue \in InitialValues}
    /\ mgr = NoManager

NextUploader ==
    \/ StartEditMode \/ TypeBase64 \/ SaveEditedBase64 \/ CancelEditMode
    \/ ClearPayload \/ ChooseFile \/ FileLoaded

SpecUploader == InitUploader /\ [][NextUploader]_vars

\* one of the three managers mounted by a change of tab, App holding some
\* list of patients
InitManagers ==
    /\ persisted = <<>>
    /\ patients = <<>> /\ loading = FALSE /\ error = FALSE
    /\ modal = "none" /\ editing = None /\ ops = <<>> /\ nops = 0
    /\ hpc = "idle"
    /\ IdleRun
    /\ upl = NoUploader
    /\ mgr \in {Manager(kind, list) : kind \in ManagerKinds, list \in ManagerLists}

NextManagers ==
    \/ SelectPatient \/ SelectSource \/ Toggle
    \/ BackendResolves \/ BackendRejects \/ PatientsChanged

SpecManagers == InitManagers /\ [][NextManagers]_vars

\* RequestResolves \/ RequestRejects: a request in flight settles, one way
\* or the other
RequestSettles ==
    \E r \in reqs : \E outcome \in Outcomes(r.kind) :
        \E R \in {requestSettles(Run, r, outcome)} :
            /\ Becomes(R)
            /\ UNCHANGED <<storeVars, uiVars, countVars, histVars, dlgVars, panelVars>>

\* the pacing timer fires
TimerFires ==
    /\ spc = "pacing"
    /\ \E R \in {nextPatient(Run)} : Becomes(R)
    /\ UNCHANGED <<storeVars, uiVars, countVars, histVars, dlgVars, panelVars>>

\* the service called directly, with a directory that settles every request
\* and timers that fire
SpecSvcLive ==
    /\ SpecSvc
    /\ WF_vars(RequestSettles)
    /\ WF_vars(TimerFires)

\* PatientManager with its import dialog, or the search called directly
InitImport == Init \/ InitSvc

NextImport ==
    \/ LoadPatients \/ LoadPatientsFails
    \/ OpenImport \/ CancelDialog
    \/ DialogSearch \/ DialogImport \/ DialogCardSearch \/ MessageTimerFires
    \/ DialogRequestResolves \/ DialogRequestRejects
    \/ StoreSaveResolves \/ StoreSaveRejects
    \/ ApiSearchBeneficiaries
    \/ ApiSyncPatient \/ RequestResolves \/ RequestRejects

SpecImport == InitImport /\ [][NextImport]_vars

----------------------------------------------------------------------------
(* Properties *)

Last(s) == s[Len(s)]

\* syncPatient has produced the last of sresults, and sgot is what its
\* Promise.all had seen when it did
HasResult == spc # "fetching" /\ sresults # <<>>

RequestRejected(kind) == sgot[kind] # None /\ ~sgot[kind][1].outcome.ok
RequestResolved(kind) == sgot[kind] # None /\ sgot[kind][1].outcome.ok

Failed(result) == ~result.success /\ result.updatedPatient = None

C2_BiometricFetchesSwallow ==
    \A kind \in {"fingerprints", "facial"} :
        sgot[kind] # None =>
            /\ sgot[kind][1].promise.fulfilled
            /\ ~sgot[kind][1].outcome.ok => sgot[kind][1].promise.value = <<>>

C2_Witness ==
    /\ spc = "fetching" /\ sgot.detail = None
    /\ RequestRejected("fingerprints") /\ RequestRejected("facial")

\* C3: syncPatient on a patient that is not imported returns success=false
\* with no updatedPatient and has issued no directory request.
C3_NotImportedFailsWithoutRequest ==
    (scaller = "syncPatient" /\ spc = "returned" /\ ~sresults[1].of[1].imported)
        => /\ Failed(sresults[1])
           /\ sent = <<>> /\ reqs = {} /\ sidx = 0

C3_Witness ==
    /\ scaller = "syncPatient" /\ spc = "returned"
    /\ sresults[1].of = Some(PLocal) /\ sresults[1].message = "not imported"

importedOf(list) == SelectSeq(list, LAMBDA p : p.imported)

\* C4: syncAllPatients over n >= 1 imported patients collects its results in
\* input order, one per imported patient, and returns exactly n of them
\* whichever of them failed.
C4_OneResultPerImportedPatient ==
    (scaller = "syncAllPatients" /\ importedOf(sarg) # <<>>) =>
        LET imp == importedOf(sarg)
            n == Len(imp)
        IN  /\ Len(sresults) <= n
            /\ \A k \in 1..Len(sresults) : sresults[k].of = Some(imp[k])
            /\ Len(sresults) + Len(squeue) + (IF spc = "fetching" THEN 1 ELSE 0) = n
            /\ squeue = SubSeq(imp, n - Len(squeue) + 1, n)
            /\ spc = "returned" => Len(sresults) = n

\* three imported patients, the second failed, the first and third succeeded
C4_Witness ==
    /\ scaller = "syncAllPatients" /\ spc = "returned" /\ Len(sresults) = 3
    /\ sresults[1].success /\ Failed(sresults[2]) /\ sresults[3].success

\* C5 as claimed: the requests in flight at any time all belong to one
\* patient of the batch.
C5_OnePatientInFlight ==
    \A r1 \in reqs : \A r2 \in reqs : r1.owner = r2.owner

Updated(result) == result.updatedPatient[1]

Ids(list) == Map(LAMBDA p : p.id, list)

\* C6 as claimed: when handleSyncAllPatients ends its loop, the in-memory
\* list and the persisted list hold the updatedPatient of every successful
\* result of the batch.
C6_EveryUpdateKept ==
    [][(hpc = "saveAll" /\ hpc' = "idle" /\ halert'.kind = "batch complete")
          => \A k \in 1..Len(sresults) :
                sresults[k].success =>
                    /\ Updated(sresults[k]) \in InList(patients')
                    /\ toPatientSnake(Updated(sresults[k])) \in InList(persisted')]_vars

\* C7: every list handleSyncAllPatients persists is the list it closed over
\* when it started with one successful result put in place (the same ids in
\* the same order, each record either the snapshot's or that result's), and
\* its write replaces the whole persisted list; a record saved by another
\* handler since the snapshot is therefore not in what it writes.
C7_BatchWritesStaleSnapshot ==
    /\ [](hpc = "saveAll" =>
            /\ Ids(hsaving) = Ids(hsnap)
            /\ \E k \in 1..Len(sresults) :
                  /\ sresults[k].success
                  /\ \A i \in 1..Len(hsaving) :
                        hsaving[i] \in {hsnap[i], Updated(sresults[k])})
    /\ [][(hpc = "saveAll" /\ persisted' # persisted /\ ops' = ops)
             => (persisted' = savePatients(hsaving) /\ patients' = hsaving)]_vars

\* a create, update or delete started and saved while the batch was running
\* is in memory and on disk, and the list the batch is about to write lacks it
C7_Witness ==
    /\ hpc = "saveAll" /\ ops = <<>>
    /\ patients # hsnap /\ persisted = savePatients(patients)
    /\ \A k \in 1..Len(sresults) :
          sresults[k].success => Updated(sresults[k]) \notin InList(patients)
    /\ \/ \E p \in InList(patients) : p \notin InList(hsnap) /\ p \notin InList(hsaving)
       \/ \E p \in InList(hsaving) : p.id \notin InList(Ids(patients))

IsCreate(op) == op.kind \in {"create", "import"}

SyncIsSaving == hpc \in {"saveOne", "saveAll"}

\* C8 as claimed: at most one store operation is suspended in its persist at
\* any time, and two creates suspended together carry distinct new ids.
C8_StoreOperationsNeverOverlap ==
    /\ Len(ops) + (IF SyncIsSaving THEN 1 ELSE 0) <= 1
    /\ \A i \in 1..Len(ops) : \A j \in 1..Len(ops) :
          (i # j /\ IsCreate(ops[i]) /\ IsCreate(ops[j]))
              => Last(ops[i].list).id # Last(ops[j].list).id

\* C9: a successful syncPatient keeps the local name when it is not empty
\* and takes the (trimmed) name the directory resolved only for an empty one.
C9_LocalNameWins ==
    (HasResult /\ Last(sresults).success) =>
        LET patient == Last(sresults).of[1]
            apiResolvedName == Trim(sgot.detail[1].promise.value.name)
        IN  Updated(Last(sresults)).name =
                IF patient.name # <<>> THEN patient.name ELSE apiResolvedName

\* local name "Ana", the directory says " Bia": the result keeps "Ana"
C9_Witness ==
    /\ HasResult /\ Last(sresults).success
    /\ Last(sresults).of[1].name = NameAna
    /\ sgot.detail[1].promise.value.name = NameBiaRaw
    /\ Updated(Last(sresults)).name = NameAna

\* C10 as claimed: the wallet of a successful result is the response's
\* completeCardNumber when the detail response has one, and the patient's
\* own wallet, unchanged, when it has none.
C10_WalletKeptWithoutCompleteCardNumber ==
    (HasResult /\ Last(sresults).success) =>
        LET patient == Last(sresults).of[1]
            details == sgot.detail[1].outcome.body
        IN  Updated(Last(sresults)).wallet =
                IF Truthy(details.completeCardNumber)
                THEN details.completeCardNumber[1] ELSE patient.wallet

\* syncPatient applied to the updatedPatient of a successful result, the
\* directory answering each of the three requests as it did the first time
syncAgain(result) ==
    LET up == Updated(result)
        details == settle(up, "detail", sgot.detail[1].outcome)
        fingerprints == settle(up, "fingerprints", sgot.fingerprints[1].outcome)
        facialBiometry == settle(up, "facial", sgot.facial[1].outcome)
    IN  IF details.fulfilled /\ fingerprints.fulfilled /\ facialBiometry.fulfilled
        THEN SyncResult(TRUE, "ok",
                        Some(mergePatient(up, details.value, fingerprints.value,
                                          facialBiometry.value)),
                        Some(up))
        ELSE ErrorResult(up)

\* C11 as claimed: synchronizing the updatedPatient of a successful
\* syncPatient again, with the same directory responses, succeeds and gives
\* the same name, wallet, digitalBiometrics and facialBiometric.
C11_SyncIsIdempotent ==
    (HasResult /\ Last(sresults).success) =>
        LET first == Updated(Last(sresults))
            again == syncAgain(Last(sresults))
        IN  /\ again.success
            /\ Updated(again).name = first.name
            /\ Updated(again).wallet = first.wallet
            /\ Updated(again).digitalBiometrics = first.digitalBiometrics
            /\ Updated(again).facialBiometric = first.facialBiometric

\* C12: the biometrics of a successful result are the fetched ones, entry by
\* entry, whatever the patient held before; a facial fetch that gave nothing
\* leaves facialBiometric empty and a fingerprint fetch that gave nothing
\* leaves digitalBiometrics empty.
C12_BiometricsAreTheFetchedOnes ==
    (HasResult /\ Last(sresults).success) =>
        LET up == Updated(Last(sresults))
            fetchedPrints == sgot.fingerprints[1].promise.value
            fetchedFace == sgot.facial[1].promise.value
        IN  /\ up.facialBiometric = fetchedFace
            /\ Len(up.digitalBiometrics) = Len(fetchedPrints)
            /\ \A i \in 1..Len(fetchedPrints) :
                  /\ up.digitalBiometrics[i].finger = getFingerName(fetchedPrints[i].fingerCode)
                  /\ up.digitalBiometrics[i].data = fetchedPrints[i].biometry
            /\ (RequestRejected("facial") => up.facialBiometric = <<>>)
            /\ (RequestRejected("fingerprints") => up.digitalBiometrics = <<>>)

\* a patient holding a face and a print is synchronized, both biometric
\* fetches give nothing, and the result holds neither
C12_Witness ==
    /\ HasResult /\ Last(sresults).success
    /\ Last(sresults).of[1].facialBiometric = OldFace
    /\ Last(sresults).of[1].digitalBiometrics = OldPrint
    /\ RequestRejected("facial") /\ RequestRejected("fingerprints")
    /\ Updated(Last(sresults)).facialBiometric = <<>>
    /\ Updated(Last(sresults)).digitalBiometrics = <<>>

\* the digitalBiometrics of a persisted record
storedBiometrics(raw) == FirstPresent(<<raw.digital_biometrics>>, <<>>)

\* C13 as claimed: no persisted patient has a digitalBiometrics entry whose
\* data is empty.
C13_NoEmptyBiometricPersisted ==
    \A i \in 1..Len(persisted) :
        \A j \in 1..Len(storedBiometrics(persisted[i])) :
            storedBiometrics(persisted[i])[j].data # <<>>

Fingers(digitalBiometrics) == Map(LAMBDA d : d.finger, digitalBiometrics)

NoRepeat(s) == \A i \in 1..Len(s) : \A j \in 1..Len(s) : i # j => s[i] # s[j]

\* C14 as claimed: every patient in memory and every persisted patient has at
\* most 10 digitalBiometrics entries, no two of them with the same finger.
C14_OneEntryPerFinger ==
    /\ \A i \in 1..Len(patients) :
          /\ Len(patients[i].digitalBiometrics) <= 10
          /\ NoRepeat(Fingers(patients[i].digitalBiometrics))
    /\ \A i \in 1..Len(persisted) :
          /\ Len(storedBiometrics(persisted[i])) <= 10
          /\ NoRepeat(Fingers(storedBiometrics(persisted[i])))

\* a store handler has just been started, and is suspended in its persist
Started(kinds) == Len(ops') = Len(ops) + 1 /\ Last(ops').kind \in kinds

\* a store handler's persist has just resolved and changed the durable copy
Persisted == Len(ops') = Len(ops) - 1 /\ persisted' # persisted

\* what the resolved persist wrote, and what is then set in memory, is the
\* whole list of the handler that was suspended in it
InstallsItsList ==
    \E i \in 1..Len(ops) :
        /\ ops' = RemoveAt(ops, i)
        /\ persisted' = Map(toPatientSnake, ops[i].list)
        /\ patients' = ops[i].list

\* C15: a create (manual or import) gives its draft the id one above the
\* highest id in the list, 1 for an empty list, and puts it after the
\* existing records; its persist writes that whole list, which becomes the
\* in-memory list; three creates on an empty store get ids 1, 2, 3.
C15_CreateAssignsMaxPlusOne ==
    /\ [][Started({"create", "import"}) =>
            LET list == Last(ops').list
                new == Last(list)
            IN  /\ Len(list) = Len(patients) + 1
                /\ SubSeq(list, 1, Len(patients)) = patients
                /\ new \in {[ManualDraft EXCEPT !.id = new.id],
                            [ImportDraft EXCEPT !.id = new.id]}
                /\ \A q \in InList(patients) : q.id < new.id
                /\ \/ new.id = 1 /\ patients = <<>>
                   \/ \E q \in InList(patients) : q.id = new.id - 1]_vars
    /\ [][Persisted => InstallsItsList]_vars
    /\ [](Ids(savedList(importedList(savedList(<<>>, ManualDraft), ImportDraft),
                        ManualDraft)) = <<1, 2, 3>>)

\* two creates, one after the other, on an empty store: ids 1 and 2, in
\* memory and on disk
C15_Witness ==
    /\ nops = 2 /\ ops = <<>>
    /\ Ids(patients) = <<1, 2>>
    /\ \A i \in 1..2 : patients[i] \in {[ManualDraft EXCEPT !.id = i],
                                        [ImportDraft EXCEPT !.id = i]}
    /\ persisted = Map(toPatientSnake, patients)

\* C16 as claimed: a create never gives its record an id that a record of
\* the list has had before, deleted since or not.
C16_IdsNeverReused ==
    [][Started({"create", "import"}) => Last(Last(ops').list).id \notin assigned]_vars

\* C17: the ids of the in-memory list are pairwise distinct and none is 0,
\* and so are those of the persisted list (the stores the model starts from
\* have distinct, non-zero ids).
C17_IdsDistinctAndNonZero ==
    /\ NoRepeat(Ids(patients))
    /\ NoRepeat(Ids(persisted))
    /\ \A i \in 1..Len(patients) : patients[i].id # 0
    /\ \A i \in 1..Len(persisted) : persisted[i].id # 0

\* a create and a synchronize have both been persisted
C17_Witness ==
    /\ nops >= 1 /\ ops = <<>> /\ nsyncs = 1 /\ hpc = "idle"
    /\ halert.kind \in {"ok", "batch complete"}
    /\ Len(patients) >= 2
    /\ persisted = Map(toPatientSnake, patients)
    /\ \E i \in 1..Len(patients) :
          patients[i].id # 0 /\ patients[i] = [ManualDraft EXCEPT !.id = patients[i].id]
    /\ \E i \in 1..Len(patients) :
          patients[i].imported /\ patients[i].facialBiometric \notin {OldFace}
                               /\ patients[i].digitalBiometrics # <<>>

\* the edit dialog holds a patient whose id is no longer in the list
EditsAbsentId ==
    modal = "addEdit" /\ editing # None /\ editing[1].id \notin InList(Ids(patients))

\* C18 as claimed: an update addressed to an id that is not in the list
\* issues no write (it fails before it persists anything).
C18_AbsentIdIssuesNoWrite ==
    [][EditsAbsentId => ~Started({"update"})]_vars

\* C19: the list a confirmed delete writes is the list it read with exactly
\* the record of that id taken out, the others in their order; the list an
\* update writes is the list it read with exactly the record of that id
\* replaced; and the persist that resolves puts that list on disk and in memory.
C19_DeleteAndUpdateTouchOneRecord ==
    /\ [][Started({"delete"}) =>
            \E k \in 1..Len(patients) :
                /\ Last(ops').list = RemoveAt(patients, k)
                /\ patients[k].id \notin InList(Ids(Last(ops').list))]_vars
    /\ [][Started({"update"}) =>
            LET list == Last(ops').list
            IN  /\ Len(list) = Len(patients)
                /\ \A k \in 1..Len(list) :
                      IF patients[k].id = editing[1].id
                      THEN list[k].id = editing[1].id /\ list[k].name = NameEd
                      ELSE list[k] = patients[k]]_vars
    /\ [][(Persisted /\ \A i \in 1..Len(ops) : ops[i].kind \in {"delete", "update"})
             => InstallsItsList]_vars

\* of two stored patients the first was renamed and then the second deleted
C19_Witness ==
    /\ nops = 2 /\ ops = <<>>
    /\ patients = <<[PAna EXCEPT !.name = NameEd]>>
    /\ persisted = Map(toPatientSnake, patients)

----------------------------------------------------------------------------
(* Search, detail and import *)

Blank(s) == Trim(s) = <<>>

\* C21 (as amended): the import dialog's search, invoked with a blank
\* guarantor, shows the "required" error, stays idle and issues no request,
\* and every search request the dialog issues carries a guarantor that is
\* not blank.
C21_DialogRefusesBlankGuarantor ==
    [][/\ \A g \in Guarantors :
             MayStartCall /\ Blank(g) /\ dlg' = dialogSearchBeneficiaries(dlg, g)
                 => /\ dlg'.reqs = dlg.reqs /\ dlg'.sent = <<>>
                    /\ dlg'.pc = "idle" /\ ~dlg'.loading
                    /\ dlg'.message = [text |-> "guarantor required", type |-> "error"]
       /\ dlg'.caller = "searchBeneficiaries"
             => \A r \in dlg'.reqs : r.kind = "search" => ~Blank(r.arg)]_vars

C21_Witness ==
    /\ dlg.caller = "searchBeneficiaries" /\ dlg.calls > 0
    /\ dlg.message = [text |-> "guarantor required", type |-> "error"]
    /\ dlg.sent = <<>> /\ dlg.reqs = {}

\* C21 as stated: whoever calls search, no search request carries a blank
\* guarantor, and a search with a blank guarantor does not resolve.
C21_BlankSearchIssuesNoRequest ==
    /\ \A i \in 1..Len(dlg.sent) :
          dlg.sent[i].kind = "search" => ~Blank(dlg.sent[i].arg)
    /\ dlg.returned # None /\ Blank(dlg.sent[1].arg) => ~dlg.returned[1].promise.fulfilled

\* s is t left-padded with c to n characters
IsPadded(s, t, n, c) ==
    /\ Len(s) = (IF Len(t) >= n THEN Len(t) ELSE n)
    /\ SubSeq(s, Len(s) - Len(t) + 1, Len(s)) = t
    /\ \A i \in 1..(Len(s) - Len(t)) : s[i] = c

\* w is insurer padded to 4 followed by card padded to 13
IsCanonicalWallet(w, insurer, card) ==
    \E k \in 0..Len(w) :
        /\ IsPadded(SubSeq(w, 1, k), insurer, 4, "0")
        /\ IsPadded(SubSeq(w, k + 1, Len(w)), card, 13, "0")

\* every raw result the directory may send
RawResults ==
    UNION {InList(outcome.body) : outcome \in {o \in SearchOutcomes : o.ok /\ o.isArray}}

\* the list the last search resolved with
Found ==
    IF dlg.returned # None /\ dlg.returned[1].promise.fulfilled
    THEN dlg.returned[1].promise.value
    ELSE <<>>

\* C22: a search result that comes from a raw result without
\* completeCardNumber carries the insurer code padded to 4 followed by the
\* card number padded to 13 (17 characters for codes of at most 4 and 13
\* characters, "00010000000000042" for "1" and "42"), and importPatient
\* fetches with, and hands over as the wallet, the completeCardNumber of the
\* result it was given.
C22_SearchWalletIsCanonical ==
    /\ \A b \in InList(Found) : \A raw \in RawResults :
          normalizeBeneficiary(raw) = b /\ raw.completeCardNumber = None
              => /\ IsCanonicalWallet(b.completeCardNumber, b.healthInsurer, b.cardNumber)
                 /\ Len(b.healthInsurer) <= 4 /\ Len(b.cardNumber) <= 13
                        => Len(b.completeCardNumber) = 17
                 /\ b.healthInsurer = <<"1">> /\ b.cardNumber = <<"4", "2">>
                        => b.completeCardNumber =
                               <<"0", "0", "0", "1", "0", "0", "0", "0", "0", "0", "0",
                                 "0", "0", "0", "0", "4", "2">>
    /\ dlg.caller = "importPatient"
          => /\ dlg.pc = "bio" /\ modal = "import"
                    => \E b \in InList(dlg.searchResults) :
                           dlg.resolvedWallet = b.completeCardNumber
             /\ \A i \in 1..Len(dlg.sent) : dlg.sent[i].arg = dlg.resolvedWallet
             /\ dlg.draft # None => dlg.draft[1].wallet = dlg.resolvedWallet

C22_Witness ==
    /\ dlg.caller = "importPatient" /\ dlg.draft # None /\ modal = "import"
    /\ dlg.draft[1].wallet = Wallet42
    /\ \E b \in InList(dlg.searchResults) : \E raw \in RawResults :
          /\ normalizeBeneficiary(raw) = b /\ raw.completeCardNumber = None
          /\ b.completeCardNumber = dlg.draft[1].wallet
    /\ \E i \in 1..Len(ops) : Last(ops[i].list).wallet = Wallet42

\* the lowercased term is in the field, whatever the case of the field
includesIgnoringCase(field, guarantor) ==
    includes(toLowerCase(field), toLowerCase(guarantor))

\* C23: a search that received a list resolves with exactly the normalized
\* records of which the name, healthInsurer, cardNumber or completeCardNumber
\* contains the guarantor, compared without regard to case (the empty list
\* when there is none), and does not reject.
C23_FilterIgnoresCase ==
    dlg.returned # None /\ dlg.returned[1].outcome.ok
        => LET guarantor == dlg.sent[1].arg
               outcome == dlg.returned[1].outcome
               normalized == Map(normalizeBeneficiary,
                                 IF outcome.isArray THEN outcome.body ELSE <<>>)
           IN  /\ dlg.returned[1].promise.fulfilled
               /\ dlg.returned[1].promise.value =
                      SelectSeq(normalized,
                                LAMBDA b :
                                    \/ includesIgnoringCase(b.name, guarantor)
                                    \/ includesIgnoringCase(b.healthInsurer, guarantor)
                                    \/ includesIgnoringCase(b.cardNumber, guarantor)
                                    \/ includesIgnoringCase(b.completeCardNumber, guarantor))

\* C24: when the detail response has no completeCardNumber, the Beneficiary
\* that detail resolves with carries the insurer code padded to 4 followed by
\* its card number (the one passed in, when the response has none) padded
\* to 13.
C24_DetailWalletIsCanonical ==
    /\ dlg.details # None /\ dlg.details[1].outcome.ok
          /\ ~Truthy(dlg.details[1].outcome.body.completeCardNumber)
    => LET beneficiary == dlg.details[1].promise.value
           insurer == FirstTruthy(<<dlg.details[1].outcome.body.healthInsurer>>, <<>>)
       IN  IsCanonicalWallet(beneficiary.completeCardNumber, insurer,
                             beneficiary.cardNumber)

\* the last 13 characters of w without their leading zeros
IsQueryIdOf(q, w) ==
    LET tail == IF Len(w) <= 13 THEN w ELSE SubSeq(w, Len(w) - 12, Len(w))
    IN  /\ \E k \in 0..Len(tail) :
              /\ \A i \in 1..k : tail[i] = "0"
              /\ q = SubSeq(tail, k + 1, Len(tail))
        /\ q # <<>> => q[1] # "0"

\* the requests syncPatient issued for the patient it is fetching
IssuedForCurrent == SelectSeq(sent, LAMBDA r : r.owner = sidx)

\* C25: the detail request of a synchronize or of an import by card number
\* carries the last 13 characters of the wallet (of the card number typed)
\* without leading zeros, a value the same transform leaves as it is, and the
\* fingerprints and facial requests of the same synchronize or import carry
\* the whole wallet: the patient's in a synchronize, the imported one's in an
\* import.
C25_DetailByQueryIdOthersByWallet ==
    /\ scur # None
          => /\ Len(IssuedForCurrent) = 3
             /\ IssuedForCurrent[1].kind = "detail"
             /\ IsQueryIdOf(IssuedForCurrent[1].cardNumber, scur[1].wallet)
             /\ IsQueryIdOf(IssuedForCurrent[1].cardNumber, IssuedForCurrent[1].cardNumber)
             /\ IssuedForCurrent[2] = Request("fingerprints", scur[1].wallet, sidx)
             /\ IssuedForCurrent[3] = Request("facial", scur[1].wallet, sidx)
    /\ \A i \in 1..Len(dlg.sent) :
          /\ dlg.sent[i].kind = "detail"
                => /\ i = 1
                   /\ dlg.pc # "idle" => IsQueryIdOf(dlg.sent[i].arg, dlg.arg)
                   /\ IsQueryIdOf(dlg.sent[i].arg, dlg.sent[i].arg)
          /\ dlg.sent[i].kind \in {"fingerprints", "facial"}
                => /\ dlg.sent[i].arg = dlg.resolvedWallet
                   /\ dlg.draft # None => dlg.draft[1].wallet = dlg.sent[i].arg
    /\ dlg.caller \in {"importPatient", "handleCardSearch"} /\ dlg.pc = "bio"
          => {dlg.sent[i].kind : i \in 1..Len(dlg.sent)} \ {"detail"}
                 = {"fingerprints", "facial"}

\* an import by the 17-character card number, its three requests issued
C25_Witness ==
    /\ dlg.caller = "handleCardSearch" /\ dlg.pc = "bio"
    /\ dlg.arg = Wallet42
    /\ dlg.sent = <<Sent("detail", <<"4", "2">>), Sent("fingerprints", WalletNew),
                    Sent("facial", WalletNew)>>

\* the fingerprints an import has fetched
FetchedOnImport ==
    IF dlg.got.fingerprints # None /\ dlg.got.fingerprints[1].promise.fulfilled
    THEN dlg.got.fingerprints[1].promise.value
    ELSE <<>>

\* C26: every fingerprint record an import fetches is given by the import
\* the finger label that synchronize gives the same record.
C26_ImportLabelsAsSyncDoes ==
    \A i \in 1..Len(FetchedOnImport) :
        LET fp == FetchedOnImport[i]
            synced == mergePatient(PAna, [name |-> <<>>, completeCardNumber |-> <<>>],
                                   <<fp>>, <<>>)
        IN  importedFinger(fp) = synced.digitalBiometrics[1].finger

\* the table of the ten finger codes
FixedLabels ==
    <<"Mínimo Esquerdo", "Anelar Esquerdo", "Médio Esquerdo", "Indicador Esquerdo",
      "Polegar Esquerdo", "Polegar Direito", "Indicador Direito", "Médio Direito",
      "Anelar Direito", "Mínimo Direito">>

\* the codes the table is checked for
CheckedCodes == -3..13

ExpectedLabel(n) == IF n \in 1..10 THEN <<FixedLabels[n]>> ELSE <<"Dedo", n>>

\* the fingerprints the running syncPatient has fetched
FetchedOnSync ==
    IF sgot.fingerprints # None /\ sgot.fingerprints[1].promise.fulfilled
    THEN sgot.fingerprints[1].promise.value
    ELSE <<>>

\* C27: getFingerName gives the ten codes their fixed labels, all different,
\* and any other number n, 0 and negative ones included, "Dedo n"; so do
\* the labels of the records that synchronize stores.
C27_FingerLabelIsTotal ==
    /\ \A n \in CheckedCodes : getFingerName(n) = ExpectedLabel(n)
    /\ \A m, n \in 1..10 : m # n => getFingerName(m) # getFingerName(n)
    /\ scur = None /\ sresults # <<>> /\ Last(sresults).success
          /\ sgot.fingerprints # None
              => LET stored == Last(sresults).updatedPatient[1].digitalBiometrics
                 IN  /\ Len(stored) = Len(FetchedOnSync)
                     /\ \A k \in 1..Len(stored) :
                           IsNumber(FetchedOnSync[k].fingerCode)
                               => stored[k].finger = ExpectedLabel(FetchedOnSync[k].fingerCode)

\* a synchronize stored labels of a code of the table, of code 0, of a
\* negative code and of a code above 10
C27_Witness ==
    \E i \in 1..Len(sresults) :
        /\ sresults[i].success /\ scur = None /\ i = Len(sresults)
        /\ {<<"Mínimo Esquerdo">>, <<"Dedo", 0>>, <<"Dedo", -1>>, <<"Dedo", 11>>}
               \subseteq {d.finger : d \in InList(sresults[i].updatedPatient[1].digitalBiometrics)}

\* the handler has just built a draft and handed it to onImport
DraftHandedOver == dlg'.draft # None /\ dlg.draft = None

\* C28: the draft an import builds has id 0, is marked imported and has no
\* digitalBiometrics entry without data; building it and handing it over
\* changes neither the persisted nor the in-memory list: it starts
\* handleImportPatient, which appends the draft under a non-zero id to the
\* list it will persist, and the persisted list changes only when such a
\* persist resolves.
C28_DraftIsNotPersisted ==
    [][/\ dlg'.draft # None
             => /\ dlg'.draft[1].id = 0 /\ dlg'.draft[1].imported
                /\ \A d \in InList(dlg'.draft[1].digitalBiometrics) : d.data # <<>>
       /\ DraftHandedOver
             => /\ UNCHANGED <<persisted, patients>>
                /\ Len(ops') = Len(ops) + 1 /\ Last(ops').kind = "import"
                /\ Last(Last(ops').list).id # 0
                /\ Last(Last(ops').list) = [dlg'.draft[1] EXCEPT !.id = Last(Last(ops').list).id]
       /\ persisted' # persisted
             => \E i \in 1..Len(ops) :
                    /\ persisted' = savePatients(ops[i].list)
                    /\ Last(ops[i].list).id # 0]_vars

\* a draft from which an entry without data was dropped, handed over and
\* waiting to be persisted
C28_Witness ==
    /\ dlg.draft # None /\ ops # <<>>
    /\ dlg.draft[1].digitalBiometrics # <<>>
    /\ Len(dlg.draft[1].digitalBiometrics) < Len(FetchedOnImport)
    /\ \E i \in 1..Len(ops) :
          /\ [Last(ops[i].list) EXCEPT !.id = 0] = dlg.draft[1]
          /\ Last(ops[i].list).id # 0
          /\ persisted # savePatients(ops[i].list)

RejectedOnImport(kind) ==
    dlg'.got[kind] # None /\ ~dlg'.got[kind][1].outcome.ok

\* C29: in an import by card number, a rejected detail request ends the
\* handler with an error message and no draft, with nothing handed to
\* handleImportPatient and the lists as they were; once detail has resolved
\* and the fingerprints and facial requests have settled there is a draft
\* whatever their outcomes, with empty digitalBiometrics when the
\* fingerprints request rejected and an empty facialBiometric when the
\* facial request rejected.
C29_OnlyDetailFailsCardImport ==
    [][dlg'.caller = "handleCardSearch"
          => /\ dlg'.details # None /\ ~dlg'.details[1].outcome.ok
                   => /\ dlg'.draft = None /\ dlg'.pc = "idle"
                      /\ dlg'.got = NoBiometrics
                      /\ Len(dlg'.sent) = 1
                      /\ dlg.pc = "detail"
                            => /\ UNCHANGED <<persisted, patients, ops, nops>>
                               /\ modal = "import" => dlg'.message.type = "error"
             /\ dlg'.got.fingerprints # None /\ dlg'.got.facial # None
                   => /\ dlg'.draft # None
                      /\ RejectedOnImport("fingerprints")
                            => dlg'.draft[1].digitalBiometrics = <<>>
                      /\ RejectedOnImport("facial")
                            => dlg'.draft[1].facialBiometric = <<>>
                      /\ DraftHandedOver => Last(ops') = Op("import",
                             importedList(dlg.onImport, dlg'.draft[1]))]_vars

\* a card import whose fingerprints and facial requests both rejected
C29_Witness ==
    /\ dlg.caller = "handleCardSearch" /\ dlg.draft # None
    /\ dlg.details # None /\ dlg.details[1].outcome.ok
    /\ dlg.got.fingerprints # None /\ ~dlg.got.fingerprints[1].outcome.ok
    /\ dlg.got.facial # None /\ ~dlg.got.facial[1].outcome.ok
    /\ dlg.draft[1].digitalBiometrics = <<>> /\ dlg.draft[1].facialBiometric = <<>>
    /\ \E i \in 1..Len(ops) : [Last(ops[i].list) EXCEPT !.id = 0] = dlg.draft[1]

\* the messages of the results syncPatient returns
ReturnedMessages == {"not imported", "error", "ok"}

\* C30: whatever its requests do, a syncPatient that settles has returned a
\* result with a success flag and one of its own messages; in
\* syncAllPatients that result is pushed and the pause follows, which the
\* catch of the loop would skip; and a syncPatient that has not settled is
\* waiting for a request that is still in flight.
C30_SyncPatientAlwaysResolves ==
    [][/\ Len(sresults') > Len(sresults) /\ sresults'[1] # NoneImportedResult
             => /\ Last(sresults').success \in BOOLEAN
                /\ Last(sresults').message \in ReturnedMessages
                /\ Last(sresults').success <=> Last(sresults').message = "ok"
                /\ scaller' = "syncAllPatients" => spc' = "pacing"
       /\ scur # None /\ scur' = None => Len(sresults') > Len(sresults)
       /\ spc' = "fetching" => \E r \in reqs' : r.owner = sidx']_vars

\* syncAllPatients pausing after a syncPatient whose detail request rejected
C30_Witness ==
    /\ scaller = "syncAllPatients" /\ spc = "pacing"
    /\ sresults # <<>> /\ Last(sresults).message = "error" /\ ~Last(sresults).success
    /\ sgot.detail # None /\ ~sgot.detail[1].outcome.ok

----------------------------------------------------------------------------
(* Batch termination, the wire adapter, the payload editor, the managers *)

\* syncAllPatients has returned one result for each imported patient of its
\* argument, in order, or the single informational one when there is none
BatchComplete ==
    LET imp == importedOf(sarg)
    IN  /\ spc = "returned"
        /\ IF imp = <<>> THEN sresults = <<NoneImportedResult>>
           ELSE /\ Len(sresults) = Len(imp)
                /\ \A k \in 1..Len(imp) : sresults[k].of = Some(imp[k])
                /\ squeue = <<>> /\ scur = None

\* C31: with a directory that settles every request and timers that fire, a
\* syncAllPatients that has started returns, and when it returns every
\* imported patient of its argument has been attempted.
C31_BatchRunsToCompletion ==
    /\ (scaller = "syncAllPatients") ~> BatchComplete
    /\ [](scaller = "syncAllPatients" /\ spc = "returned" => BatchComplete)

\* a batch of three returned although its first patient failed
C31_Witness ==
    /\ scaller = "syncAllPatients" /\ BatchComplete /\ Len(sresults) = 3
    /\ Failed(sresults[1]) /\ sidx = 3

\* C32: syncAllPatients on a list without an imported patient has returned
\* exactly one result, a failure without updatedPatient, and has issued no
\* request and waited for no timer.
C32_NoImportedPatientOneFailure ==
    scaller = "syncAllPatients" /\ importedOf(sarg) = <<>> =>
        /\ spc = "returned"
        /\ Len(sresults) = 1
        /\ ~sresults[1].success /\ sresults[1].updatedPatient = None
        /\ sent = <<>> /\ reqs = {} /\ sidx = 0

\* the call on a list that holds a patient, none imported
C32_Witness ==
    /\ scaller = "syncAllPatients" /\ sarg # <<>> /\ importedOf(sarg) = <<>>
    /\ spc = "returned" /\ sresults = <<NoneImportedResult>>

\* what a record sent by load_patients is written back as, by the words of
\* the adapter's contract
RoundTripOf(raw) ==
    [id |-> raw.id,
     name |-> Some(IF raw.name # None THEN raw.name[1]
                   ELSE IF raw.full_name # None THEN raw.full_name[1]
                   ELSE IF raw.fullName # None THEN raw.fullName[1]
                   ELSE IF raw.nome # None THEN raw.nome[1]
                   ELSE <<>>),
     full_name |-> None, fullName |-> None, nome |-> None,
     wallet |-> raw.wallet,
     facial_biometric |-> Some(IF raw.facial_biometric = None THEN <<>>
                               ELSE raw.facial_biometric[1]),
     digital_biometrics |->
         Some(IF raw.digital_biometrics = None THEN <<>>
              ELSE [i \in 1..Len(raw.digital_biometrics[1]) |->
                       [finger |-> raw.digital_biometrics[1][i].finger,
                        data |-> raw.digital_biometrics[1][i].data]]),
     imported |-> Some(IF raw.imported = None THEN FALSE ELSE raw.imported[1])]

\* C33: a load followed by a save of what was loaded writes, for each record,
\* the record with its name resolved through the alternate keys and its
\* missing facial biometric, digital biometrics and imported flag defaulted;
\* a second load followed by a save writes the same records again.
C33_LoadThenSaveIsIdempotent ==
    [][nops' = nops + 1 =>
          /\ Len(persisted') = Len(persisted)
          /\ \A k \in 1..Len(persisted) : persisted'[k] = RoundTripOf(persisted[k])
          /\ nops >= 1 => persisted' = persisted]_vars

\* two round trips done on a record that came with its name under "nome" only
\* and nothing else but id and wallet
C33_Witness ==
    /\ hpc = "api" /\ nops = 2 /\ loading
    /\ persisted = <<[id |-> 1, name |-> Some(<<"n">>), full_name |-> None,
                      fullName |-> None, nome |-> None, wallet |-> Wallet42,
                      facial_biometric |-> Some(<<>>),
                      digital_biometrics |-> Some(<<>>),
                      imported |-> Some(FALSE)]>>

\* the text of the textarea without its surrounding whitespace, written
\* without the model's Trim
Trimmed(s) ==
    LET kept == {i \in 1..Len(s) : s[i] \notin {" ", "\n"}}
    IN  IF kept = {} THEN <<>>
        ELSE SubSeq(s, Min(kept), CHOOSE i \in kept : \A j \in kept : j <= i)

\* C34: a save of a payload that does not decode leaves the stored value and
\* the parent's value as they are, calls nothing back and stays in edit mode;
\* a save of a payload that decodes stores the trimmed text, hands it to the
\* callback once and leaves edit mode.
C34_SaveRejectsUndecodablePayload ==
    [][upl.mounted /\ upl.isEditMode /\ upl' = saveEditedBase64(upl) =>
          IF atobThrows(Trimmed(upl.editableBase64))
          THEN /\ upl'.base64Value = upl.base64Value
               /\ upl'.parent = upl.parent /\ upl'.ncalls = upl.ncalls
               /\ upl'.isEditMode /\ upl'.alert = "invalid"
          ELSE /\ upl'.base64Value = Trimmed(upl.editableBase64)
               /\ upl'.parent = Trimmed(upl.editableBase64)
               /\ upl'.ncalls = upl.ncalls + 1
               /\ ~upl'.isEditMode]_vars

\* a rejected save of a text with a character outside the alphabet, after an
\* accepted save of a text that needed trimming
C34_Witness ==
    /\ upl.mounted /\ upl.isEditMode /\ upl.alert = "invalid"
    /\ upl.ncalls = 1 /\ upl.base64Value = JpegSignature /\ upl.parent = JpegSignature
    /\ upl.editableBase64 = PngSignature \o <<"!">>

\* the data URI of a payload by the words of the preview's contract: the
\* signatures tested one after the other
SignatureTable ==
    << <<JpegSignature, <<"j", "p", "e", "g">>>>,
       <<PngSignature, <<"p", "n", "g">>>>,
       <<GifSignature, <<"g", "i", "f">>>> >>

\* the branches of the contract that apply to a payload
BranchesFor(base64) ==
    LET hits == {k \in 1..Len(SignatureTable) : startsWith(base64, SignatureTable[k][1])}
    IN  (IF startsWith(base64, DataImage) THEN {"unchanged"} ELSE {})
        \cup (IF ~startsWith(base64, DataImage) /\ hits # {}
              THEN {SignatureTable[Min(hits)][2]} ELSE {})
        \cup (IF ~startsWith(base64, DataImage) /\ hits = {} THEN {"generic"} ELSE {})

ExpectedSrc(base64) ==
    LET branch == CHOOSE b \in BranchesFor(base64) : TRUE
    IN  IF branch = "unchanged" THEN base64
        ELSE IF branch = "generic"
        THEN DataImage \o <<";", "b", "a", "s", "e", "6", "4", ",">> \o base64
        ELSE DataImage \o <<"/">> \o branch
                 \o <<";", "b", "a", "s", "e", "6", "4", ",">> \o base64

\* C35: the image source of the stored payload is the payload itself when it
\* starts with "data:image", else the data URI of the first signature among
\* "/9j/", "iVBOR", "R0lGOD" it starts with, else the generic data URI; one
\* and only one of these cases applies.
C35_ImageSrcFollowsSignature ==
    upl.mounted =>
        /\ Cardinality(BranchesFor(upl.base64Value)) = 1
        /\ getImageSrc(upl.base64Value) = ExpectedSrc(upl.base64Value)

\* a JPEG payload, stored by a save of a text that needed trimming
C35_Witness ==
    /\ upl.mounted /\ upl.ncalls = 1 /\ ~upl.isEditMode
    /\ upl.base64Value = <<"/", "9", "j", "/">>
    /\ getImageSrc(upl.base64Value)
           = <<"d", "a", "t", "a", ":", "i", "m", "a", "g", "e", "/", "j", "p", "e",
               "g", ";", "b", "a", "s", "e", "6", "4", ",", "/", "9", "j", "/">>

\* C36: a result of syncPatient is a success exactly when it carries an
\* updatedPatient; the updatedPatient has the id of the patient the result
\* was computed for and is imported; that patient is still the one handed in.
C36_SuccessIffUpdatedPatient ==
    \A k \in 1..Len(sresults) :
        LET result == sresults[k]
        IN  /\ result.success <=> result.updatedPatient # None
            /\ result.success =>
                  /\ result.of # None
                  /\ result.updatedPatient[1].id = result.of[1].id
                  /\ result.updatedPatient[1].imported
                  /\ result.of[1].imported
            /\ scaller = "syncPatient" /\ result.of # None => result.of[1] \in ApiPatients
            /\ scaller = "syncAllPatients" /\ result.of # None =>
                  result.of[1] = importedOf(sarg)[k]

\* a batch that returned a success with new data for its first patient and
\* a failure for its second
C36_Witness ==
    /\ scaller = "syncAllPatients" /\ spc = "returned" /\ Len(sresults) = 3
    /\ sresults[1].success /\ sresults[1].updatedPatient # None
    /\ sresults[1].updatedPatient[1] # sresults[1].of[1]
    /\ ~sresults[2].success /\ sresults[2].updatedPatient = None

\* the records of a persisted list with the given id
RecordsOf(list, id) == {r \in InList(list) : r.id = id}

\* C38 as claimed: when handleSyncPatient's persist resolves, a patient that
\* was deleted from the persisted list since the handler started is not in
\* the list it writes, and a patient whose persisted record was edited since
\* then keeps the edited name.
C38_SyncKeepsInterveningChange ==
    [][(hpc = "saveOne" /\ hpc' = "idle" /\ halert'.kind = "ok") =>
          LET id == hpatient[1].id
              before == RecordsOf(persisted, id)
              after == RecordsOf(persisted', id)
          IN  /\ before = {} => after = {}
              /\ \A r \in before :
                    r # toPatientSnake(hpatient[1]) =>
                        \A q \in after : q.name = r.name]_vars

\* a synchronize handler of PatientManager is between its setSyncLoading(true)
\* and its finally block
SyncInFlight == hpc \in {"syncOne", "syncAll", "saveOne", "saveAll"}

SettledNow(op) ==
    /\ mgr'.settled # mgr.settled /\ mgr'.settled # None
    /\ mgr'.settled[1].call \in mgr.calls
    /\ mgr'.settled[1].call.op = op

\* the active flag went from false to true in this step
BecomesActive == mgr.kind # "none" /\ ~mgr.isActive /\ mgr'.isActive

\* a start call was issued in this step
IssuedStarts == {call \in mgr'.calls \ mgr.calls : call.op = "start"}

\* the patient the user selected is in the list App holds now
SelectedNow ==
    {p \in {mgr.patients[i] : i \in 1..Len(mgr.patients)} :
        Some(p.id) = mgr.selectedPatientId}

\* the call carries the data of a selected patient that has what the
\* manager needs
StartedForSelected(call) ==
    \E p \in SelectedNow :
        CASE mgr.kind = "hotkey" -> call.data = p.wallet
          [] mgr.kind = "biometry" ->
                /\ Len(p.digitalBiometrics) >= 1
                /\ call.data = [i \in 1..Len(p.digitalBiometrics) |->
                                    p.digitalBiometrics[i].data]
          [] mgr.kind = "webcam" ->
                p.facialBiometric # <<>> /\ call.data = p.facialBiometric

StartOnlyForSelected ==
    \A call \in IssuedStarts :
        (mgr.kind = "webcam" => call.sourceType = "image") => StartedForSelected(call)

RejectionKeepsFlag ==
    \A op \in {"start", "stop"} :
        SettledNow(op) /\ ~mgr'.settled[1].outcome.ok =>
            mgr'.isActive = mgr.isActive /\ mgr'.statusMessage.isError

\* C39 as claimed: the active flag becomes true only in a step in which a
\* start call resolves.
C39_ActiveOnlyAfterStartResolved ==
    [][BecomesActive => SettledNow("start") /\ mgr'.settled[1].outcome.ok]_vars

\* C39, amended: the active flag becomes true only when a start call
\* resolves or when the status check made on mount answers true; a start is
\* issued only with the data of the selected patient, who is in the current
\* list and has the data the manager needs (for the webcam: when the source
\* is the image); a rejected start or stop leaves the flag as it was and sets
\* an error status.
C39_ActiveFollowsBackend ==
    [][/\ BecomesActive =>
             \/ SettledNow("start") /\ mgr'.settled[1].outcome.ok
             \/ /\ SettledNow("check")
                /\ mgr'.settled[1].outcome.ok /\ mgr'.settled[1].outcome.value
       /\ StartOnlyForSelected
       /\ RejectionKeepsFlag]_vars

\* the biometry server was started for the selected patient and a later
\* stop was rejected: still active, with an error status
C39_Witness ==
    /\ mgr.kind = "biometry" /\ mgr.isActive /\ mgr.statusMessage.isError
    /\ mgr.ntoggles = 2 /\ mgr.calls = {}
    /\ mgr.settled # None /\ mgr.settled[1].call.op = "stop"
    /\ ~mgr.settled[1].outcome.ok

====
